---- MODULE Spec2Model ----
(***************************************************************************)
(* A model of ai-ticker's message acquisition pipeline (app.py,            *)
(* plugin_client.py), of its plugin registry and plugin manager            *)
(* (plugins/registry.py, plugins/plugin_manager.py), of the provider map   *)
(* (plugins/integration.py) and of the built-in providers                  *)
(* (plugins/builtin).                                                      *)
(*                                                                         *)
(* A message is a sequence of characters.  A store file is absent, holds   *)
(* the JSON the program wrote (message_cache.json a list of messages,      *)
(* last_messages.json the list under its "last" key), or holds something   *)
(* the program did not write.                                              *)
(***************************************************************************)
EXTENDS Integers, Sequences, FiniteSets, TLC

VARIABLES
    cacheFile,          \* the file config.cache_file (MessageStore)
    lastFile,           \* the file config.last_file (RecencyTracker)
    providers,          \* PluginAwareAIClient.providers, in dict order
    fuzzy_threshold,    \* config.fuzzy_threshold
    cache_probability,  \* int(config.cache_probability * 100)
    call,               \* what the last get_ai_message() call did
    request,            \* the get_ai_message() call each request thread is in
    plugins,            \* PluginRegistry._plugins: name -> plugin object
    regOp,              \* the last call made on the registry's own interface
    registry_lock,      \* PluginRegistry._lock
    caller,             \* the registry call each thread is making, step by step
    loaded_modules,     \* the keys of PluginManager._loaded_modules
    disabled_plugins,   \* PluginManager.config["disabled_plugins"]
    units,              \* what the plugin directory holds for each name
    thr,                \* the PluginManager operation each thread is running
    obs,                \* the last read of the registry by an observer
    enabled_plugins,    \* PluginManager.config["enabled_plugins"]
    configFile,         \* the file PluginManager.config_file
    mgrOp,              \* the last whole PluginManager operation and its result
    denied,             \* the names disabled and not enabled again since
    integration,        \* PluginIntegration: its config and its providers dict
    client_providers,   \* PluginAwareAIClient.providers: its keys and instances
    integOp,            \* the last operation on the client's provider map
    prov                \* one built-in provider instance and its last call

orchVars == <<cacheFile, lastFile, providers, fuzzy_threshold, cache_probability, call,
              request>>

registryVars == <<plugins, regOp, registry_lock, caller>>

configVars == <<enabled_plugins, configFile, mgrOp, denied>>

managerVars == <<loaded_modules, disabled_plugins, units, thr, obs, configVars>>

integrationVars == <<integration, client_providers, integOp>>

providerVars == <<prov>>

vars == <<orchVars, registryVars, managerVars, integrationVars, providerVars>>

----------------------------------------------------------------------------
(* Bounds and input sets *)

\* config.max_cache_size (MAX_CACHE_SIZE) and config.last_limit (LAST_LIMIT) of
\* the modelled deployment; both are validated to be at least 1.
MaxCacheSize == 3
LastLimit == 2

\* The contents a provider can reply with; <<>> is the empty string.
A == <<"a">>
B == <<"b">>
AB == <<"a", "b">>
BA == <<"b", "a">>
Contents == {<<>>, A, B, AB, BA}

ProviderNames == {"p1", "p2"}

\* The values of FUZZY_THRESHOLD and int(CACHE_PROBABILITY * 100) tried.
Thresholds == {0, 60, 100}
Probabilities == {60, 100}

\* The results of secrets.randbelow(100).
RandBelow100 == 0..99

----------------------------------------------------------------------------
(* Helpers *)

Range(s) == {s[i] : i \in 1..Len(s)}

Max(x, y) == IF x >= y THEN x ELSE y

\* Python's seq[-n:] for n >= 1.
LastN(s, n) == IF Len(s) > n THEN SubSeq(s, Len(s) - n + 1, Len(s)) ELSE s

\* Optional[str]
None == [ok |-> FALSE, val |-> <<>>]
Some(m) == [ok |-> TRUE, val |-> m]

----------------------------------------------------------------------------
(* rapidfuzz.fuzz.ratio: 100 * (1 - indel(s, t) / (|s| + |t|)), where       *)
(* indel(s, t) = |s| + |t| - 2 * LCS(s, t); two empty strings score 100.   *)

RECURSIVE LCS(_, _)
LCS(s, t) ==
    IF s = <<>> \/ t = <<>> THEN 0
    ELSE IF Head(s) = Head(t) THEN 1 + LCS(Tail(s), Tail(t))
    ELSE Max(LCS(Tail(s), t), LCS(s, Tail(t)))

\* mutant: the comparison of line 119 written with > instead of >=
RatioAbove(s, t, threshold) ==
    IF Len(s) + Len(t) = 0 THEN 100 > threshold
    ELSE 200 * LCS(s, t) > threshold * (Len(s) + Len(t))

\* fuzz.ratio(s, t) >= threshold, compared exactly
RatioAtLeast(s, t, threshold) ==
    IF Len(s) + Len(t) = 0 THEN 100 >= threshold
    ELSE 200 * LCS(s, t) >= threshold * (Len(s) + Len(t))

----------------------------------------------------------------------------
(* app.py: the two stores *)

\* A file that does not exist, and a file holding the JSON of a list.
Absent == [exists |-> FALSE, form |-> "json", data |-> <<>>]
Written(messages) == [exists |-> TRUE, form |-> "json", data |-> messages]

\* A file the program did not write:
\*   undecodable   bytes that are not UTF-8
\*   invalid_json  text that is not JSON
\*   wrong_shape   JSON of the other shape: the object {} in message_cache.json,
\*                 an array in last_messages.json
CorruptForms == {"undecodable", "invalid_json", "wrong_shape"}
Corrupt(form) == [exists |-> TRUE, form |-> form, data |-> <<>>]

\* lines 118-124: open() decodes as UTF-8 and raises UnicodeDecodeError, a
\* ValueError that is neither json.JSONDecodeError nor IOError
MessageCache_load_raises(file) == file.exists /\ file.form = "undecodable"

\* lines 114-124: the value returned when nothing is raised.  Invalid JSON
\* gives []; the object {} is returned as it is, and reads as empty.
MessageCache_load(file) ==
    IF ~file.exists THEN <<>>
    ELSE IF file.form = "json" THEN file.data
    ELSE <<>>

\* line 142: messages.append on the dict that load() returned raises
\* AttributeError
MessageCache_add_message_raises(file) ==
    MessageCache_load_raises(file) \/ (file.exists /\ file.form = "wrong_shape")

\* lines 157-164: UnicodeDecodeError as above; data.get on a list raises
\* AttributeError (line 160)
RecentMessagesTracker_load_raises(file) ==
    file.exists /\ file.form \in {"undecodable", "wrong_shape"}

\* mutants of save: no pruning; pruning that keeps the oldest entries
MessageCache_save_unpruned(messages) == messages

MessageCache_save_oldest(messages) ==
    IF Len(messages) > MaxCacheSize THEN SubSeq(messages, 1, MaxCacheSize) ELSE messages

\* mutant: the entry appended last is not written
MessageCache_save_butlast(messages) ==
    LastN(SubSeq(messages, 1, Len(messages) - 1), MaxCacheSize)

\* lines 126-137: the list written to the file
MessageCache_save(messages) == LastN(messages, MaxCacheSize)

\* lines 139-143: the file afterwards
MessageCache_add_message(file, message) ==
    Written(MessageCache_save(Append(MessageCache_load(file), message)))

\* lines 153-164: the value returned when nothing is raised
RecentMessagesTracker_load(file) ==
    IF ~file.exists THEN <<>>
    ELSE IF file.form = "json" THEN file.data
    ELSE <<>>

\* lines 166-175: the list written under "last"
RecentMessagesTracker_save(messages) ==
    IF Len(messages) > LastLimit THEN LastN(messages, LastLimit) ELSE messages

\* lines 177-181: the file afterwards
RecentMessagesTracker_add_message(file, message) ==
    Written(RecentMessagesTracker_save(Append(RecentMessagesTracker_load(file), message)))

----------------------------------------------------------------------------
(* plugin_client.py: PluginAwareAIClient.get_message *)

\* What provider.generate_message does: raise, return None, or return an
\* AIResponse with some content.
Replies ==
    {[kind |-> "raise", content |-> <<>>], [kind |-> "none", content |-> <<>>]}
    \cup {[kind |-> "response", content |-> c] : c \in Contents}

\* mutant: only the newest existing message is compared
is_similar_last(new_message, existing_messages, threshold) ==
    /\ existing_messages # <<>>
    /\ RatioAtLeast(new_message, existing_messages[Len(existing_messages)], threshold)

\* mutant: only the first existing message is compared
is_similar_first(new_message, existing_messages, threshold) ==
    /\ existing_messages # <<>>
    /\ RatioAtLeast(new_message, existing_messages[1], threshold)

\* lines 105-122
is_similar(new_message, existing_messages, threshold) ==
    \E i \in 1..Len(existing_messages) :
        RatioAtLeast(new_message, existing_messages[i], threshold)

\* mutant: the element is copied, not exchanged
Swap_copy(list, i, j) == [list EXCEPT ![i] = list[j]]

\* line 79: provider_list[i], provider_list[j] = provider_list[j], provider_list[i]
Swap(list, i, j) == [list EXCEPT ![i] = list[j], ![j] = list[i]]

\* The loop of lines 77-79; js[i] is the i-th result of randbelow(len(list)).
RECURSIVE ShuffleFrom(_, _, _)
ShuffleFrom(list, js, i) ==
    IF i > Len(list) THEN list
    ELSE ShuffleFrom(Swap(list, i, js[i] + 1), js, i + 1)

Shuffle(list, js) == ShuffleFrom(list, js, 1)

\* mutant: a provider that does not give an acceptable message ends the loop
TryProviders_stop(provider_list, reply, existing_messages, threshold) ==
    IF provider_list = <<>> THEN [msg |-> None, log |-> <<>>, raised |-> FALSE]
    ELSE LET p == Head(provider_list)
             entry == [provider |-> p, reply |-> reply[p]]
         IN  IF reply[p].kind = "response" /\ reply[p].content # <<>>
                /\ ~is_similar(reply[p].content, existing_messages, threshold)
             THEN [msg |-> Some(reply[p].content), log |-> <<entry>>, raised |-> FALSE]
             ELSE [msg |-> None, log |-> <<entry>>, raised |-> FALSE]

\* mutant: no except clause around the provider call
TryProvider_uncaught(reply, existing_messages, threshold) ==
    IF reply.kind = "raise" THEN "raise"
    ELSE IF reply.kind = "response" /\ reply.content # <<>>
    THEN IF ~is_similar(reply.content, existing_messages, threshold)
         THEN "accept" ELSE "next"
    ELSE "next"

\* One iteration of the for loop of lines 81-100:
\* "accept" returns the content, "next" goes on with the next provider,
\* "raise" lets the provider's exception leave get_message.
TryProvider(reply, existing_messages, threshold) ==
    IF reply.kind = "raise" THEN "next"
    ELSE IF reply.kind = "response" /\ reply.content # <<>>
    THEN IF ~is_similar(reply.content, existing_messages, threshold)
         THEN "accept" ELSE "next"
    ELSE "next"

\* The for loop: the message returned, the providers called (in order), and
\* whether an exception left the loop.
RECURSIVE TryProviders(_, _, _, _)
TryProviders(provider_list, reply, existing_messages, threshold) ==
    IF provider_list = <<>> THEN [msg |-> None, log |-> <<>>, raised |-> FALSE]
    ELSE LET p == Head(provider_list)
             entry == [provider |-> p, reply |-> reply[p]]
             outcome == TryProvider(reply[p], existing_messages, threshold)
         IN  IF outcome = "accept"
             THEN [msg |-> Some(reply[p].content), log |-> <<entry>>, raised |-> FALSE]
             ELSE IF outcome = "raise"
             THEN [msg |-> None, log |-> <<entry>>, raised |-> TRUE]
             ELSE LET rest == TryProviders(Tail(provider_list), reply,
                                           existing_messages, threshold)
                  IN  [rest EXCEPT !.log = <<entry>> \o rest.log]

get_message(provs, js, reply, existing_messages, threshold) ==
    IF provs = <<>> THEN [msg |-> None, log |-> <<>>, raised |-> FALSE, order |-> <<>>]
    ELSE LET order == Shuffle(provs, js)
             r == TryProviders(order, reply, existing_messages, threshold)
         IN  [msg |-> r.msg, log |-> r.log, raised |-> r.raised, order |-> order]

----------------------------------------------------------------------------
(* app.py: get_ai_message *)

ArchiveSuffix == <<" (from archive)">>
ErrorMsg == <<"[No response available - please check configuration]">>

\* call: what the last get_ai_message() did.
\*   files           the two store files when the call began
\*   cached, recent  the two lists as loaded at lines 312-313
\*   down            every configured provider fails during this call (it would
\*                   raise, return None or return empty content when asked)
\*   path            the return statement reached; "raised" when an exception
\*                   left the function instead
\*   order, log      the shuffled provider list and the providers called
\*   wroteCache, wroteLast   whether the call wrote the store files
\*   new_message     what ai_client.get_message returned (line 331), None when
\*                   it was not called
\*   draws           the results of randbelow in the shuffle, when recorded
\*   below           the draw of line 316 was below the cache probability
NoCall == [path |-> "init", ret |-> <<>>, raised |-> FALSE, down |-> FALSE,
           new_message |-> None, draws |-> <<>>, below |-> FALSE,
           files |-> <<Absent, Absent>>, cached |-> <<>>, recent |-> <<>>, order |-> <<>>, log |-> <<>>,
           wroteCache |-> FALSE, wroteLast |-> FALSE]

Failed(reply) == reply.kind \in {"raise", "none"} \/ reply.content = <<>>

AllFail(provs, reply) == \A i \in 1..Len(provs) : Failed(reply[provs[i]])

\* mutant: the recently served messages are not excluded
Available_any(cached_messages, recent_messages) == cached_messages

\* lines 318-322
Available(cached_messages, recent_messages) ==
    LET available == SelectSeq(cached_messages,
                               LAMBDA msg : msg \notin Range(recent_messages))
    IN  IF available = <<>> THEN cached_messages ELSE available

\* Every outcome get_message can have, for some results of randbelow and some
\* behaviour of the providers, with whether all the providers fail.
GetMessageOutcomes(existing_messages) ==
    {[r |-> get_message(providers, js, reply, existing_messages, fuzzy_threshold),
      down |-> AllFail(providers, reply)] :
        js \in [1..Len(providers) -> 0..(Len(providers) - 1)],
        reply \in [Range(providers) -> Replies]}

\* mutant: the providers are asked before the cached message is served
CachePath_asked(cached_messages, recent_messages) ==
    LET available == Available(cached_messages, recent_messages)
    IN  \E k \in 0..(Len(available) - 1), o \in GetMessageOutcomes(cached_messages) :
            LET selected == available[k + 1]
            IN  /\ lastFile' = RecentMessagesTracker_add_message(lastFile, selected)
                /\ cacheFile' = cacheFile
                /\ call' = [NoCall EXCEPT !.path = "cache", !.ret = selected,
                                          !.below = TRUE,
                                          !.down = o.down,
                                          !.order = o.r.order, !.log = o.r.log,
                                          !.files = <<cacheFile, lastFile>>,
                                          !.cached = cached_messages,
                                          !.recent = recent_messages,
                                          !.wroteLast = TRUE]

\* lines 316-328
CachePath(cached_messages, recent_messages) ==
    LET available == Available(cached_messages, recent_messages)
    IN  \E k \in 0..(Len(available) - 1),
           down \in {AllFail(providers, reply) : reply \in [Range(providers) -> Replies]} :
            LET selected == available[k + 1]
            IN  /\ lastFile' = RecentMessagesTracker_add_message(lastFile, selected)
                /\ cacheFile' = cacheFile
                /\ call' = [NoCall EXCEPT !.path = "cache", !.ret = selected,
                                          !.below = TRUE,
                                          !.down = down,
                                          !.files = <<cacheFile, lastFile>>,
                                          !.cached = cached_messages,
                                          !.recent = recent_messages,
                                          !.wroteLast = TRUE]

\* mutant: with nothing to serve the call returns an empty string
AfterProviders_silent(new_message, cached_messages, k) ==
    IF new_message.ok /\ new_message.val # <<>>
    THEN [path |-> "generated", ret |-> new_message.val,
          toCache |-> Some(new_message.val), toLast |-> Some(new_message.val)]
    ELSE IF cached_messages # <<>>
    THEN LET fallback == cached_messages[k + 1]
         IN  [path |-> "fallback", ret |-> fallback \o ArchiveSuffix,
              toCache |-> None, toLast |-> Some(fallback)]
    ELSE [path |-> "sentinel", ret |-> <<>>, toCache |-> None, toLast |-> None]

\* mutant: the fallback files the message it serves in the cache again
AfterProviders_refiled(new_message, cached_messages, k) ==
    IF new_message.ok /\ new_message.val # <<>>
    THEN [path |-> "generated", ret |-> new_message.val,
          toCache |-> Some(new_message.val), toLast |-> Some(new_message.val)]
    ELSE IF cached_messages # <<>>
    THEN LET fallback == cached_messages[k + 1]
         IN  [path |-> "fallback", ret |-> fallback \o ArchiveSuffix,
              toCache |-> Some(fallback), toLast |-> Some(fallback)]
    ELSE [path |-> "sentinel", ret |-> ErrorMsg, toCache |-> None, toLast |-> None]

\* mutant: without a new message the call gives up, whatever the cache holds
AfterProviders_giveup(new_message, cached_messages, k) ==
    IF new_message.ok /\ new_message.val # <<>>
    THEN [path |-> "generated", ret |-> new_message.val,
          toCache |-> Some(new_message.val), toLast |-> Some(new_message.val)]
    ELSE [path |-> "sentinel", ret |-> ErrorMsg, toCache |-> None, toLast |-> None]

\* mutant: the fallback returns the cached message without the suffix
AfterProviders_unmarked(new_message, cached_messages, k) ==
    IF new_message.ok /\ new_message.val # <<>>
    THEN [path |-> "generated", ret |-> new_message.val,
          toCache |-> Some(new_message.val), toLast |-> Some(new_message.val)]
    ELSE IF cached_messages # <<>>
    THEN LET fallback == cached_messages[k + 1]
         IN  [path |-> "fallback", ret |-> fallback,
              toCache |-> None, toLast |-> Some(fallback)]
    ELSE [path |-> "sentinel", ret |-> ErrorMsg, toCache |-> None, toLast |-> None]

\* mutant: the last resort records the message it returns as recently served
AfterProviders_tracked(new_message, cached_messages, k) ==
    IF new_message.ok /\ new_message.val # <<>>
    THEN [path |-> "generated", ret |-> new_message.val,
          toCache |-> Some(new_message.val), toLast |-> Some(new_message.val)]
    ELSE IF cached_messages # <<>>
    THEN LET fallback == cached_messages[k + 1]
         IN  [path |-> "fallback", ret |-> fallback \o ArchiveSuffix,
              toCache |-> None, toLast |-> Some(fallback)]
    ELSE [path |-> "sentinel", ret |-> ErrorMsg, toCache |-> None, toLast |-> Some(ErrorMsg)]

\* lines 339-354: what get_ai_message does with the result of get_message;
\* k is the result of randbelow(len(cached_messages)) at line 346.
AfterProviders(new_message, cached_messages, k) ==
    IF new_message.ok /\ new_message.val # <<>>
    THEN [path |-> "generated", ret |-> new_message.val,
          toCache |-> Some(new_message.val), toLast |-> Some(new_message.val)]
    ELSE IF cached_messages # <<>>
    THEN LET fallback == cached_messages[k + 1]
         IN  [path |-> "fallback", ret |-> fallback \o ArchiveSuffix,
              toCache |-> None, toLast |-> Some(fallback)]
    ELSE [path |-> "sentinel", ret |-> ErrorMsg, toCache |-> None, toLast |-> None]

\* lines 330-354
GenerationPath(cached_messages, recent_messages, below) ==
    \E o \in GetMessageOutcomes(cached_messages),
       k \in 0..Max(Len(cached_messages) - 1, 0) :
        LET base == [NoCall EXCEPT !.files = <<cacheFile, lastFile>>,
                                   !.cached = cached_messages,
                                   !.recent = recent_messages, !.down = o.down,
                                   !.new_message = o.r.msg, !.below = below,
                                   !.order = o.r.order, !.log = o.r.log]
            after == AfterProviders(o.r.msg, cached_messages, k)
        IN  IF o.r.raised \/ (after.toCache.ok /\ MessageCache_add_message_raises(cacheFile))
            THEN /\ UNCHANGED <<cacheFile, lastFile>>
                 /\ call' = [base EXCEPT !.path = "raised", !.raised = TRUE]
            ELSE /\ cacheFile' = IF after.toCache.ok
                                 THEN MessageCache_add_message(cacheFile, after.toCache.val)
                                 ELSE cacheFile
                 /\ lastFile' = IF after.toLast.ok
                                THEN RecentMessagesTracker_add_message(lastFile, after.toLast.val)
                                ELSE lastFile
                 /\ call' = [base EXCEPT !.path = after.path, !.ret = after.ret,
                                         !.wroteCache = after.toCache.ok,
                                         !.wroteLast = after.toLast.ok]

get_ai_message ==
    LET cached_messages == MessageCache_load(cacheFile)
        recent_messages == RecentMessagesTracker_load(lastFile)
    IN  /\ call = NoCall
        /\ IF MessageCache_load_raises(cacheFile) \/ RecentMessagesTracker_load_raises(lastFile)
           THEN /\ UNCHANGED <<cacheFile, lastFile>>
                /\ call' = [NoCall EXCEPT !.path = "raised", !.raised = TRUE,
                                          !.files = <<cacheFile, lastFile>>]
           ELSE \E below \in {draw < cache_probability : draw \in RandBelow100} :
                   IF cached_messages # <<>> /\ below
                   THEN CachePath(cached_messages, recent_messages)
                   ELSE GenerationPath(cached_messages, recent_messages, below)
        /\ UNCHANGED <<providers, fuzzy_threshold, cache_probability, request>>
        /\ UNCHANGED <<registryVars, managerVars, integrationVars, providerVars>>

\* The record of a finished call is dropped before the next call is observed;
\* nothing of the program changes.
Forget ==
    /\ call # NoCall
    /\ call' = NoCall
    /\ UNCHANGED <<cacheFile, lastFile, providers, fuzzy_threshold, cache_probability,
                   request>>
    /\ UNCHANGED <<registryVars, managerVars, integrationVars, providerVars>>

\* plugin_client.py lines 73-79 alone: the list of providers is shuffled with
\* the draws js, which are recorded.
ShuffleProviders ==
    /\ call = NoCall
    /\ providers # <<>>
    /\ \E js \in [1..Len(providers) -> 0..(Len(providers) - 1)] :
          call' = [NoCall EXCEPT !.path = "shuffle", !.draws = js,
                                 !.order = Shuffle(providers, js)]
    /\ UNCHANGED <<cacheFile, lastFile, providers, fuzzy_threshold, cache_probability,
                   request>>
    /\ UNCHANGED <<registryVars, managerVars, integrationVars, providerVars>>

----------------------------------------------------------------------------
(* app.py: the /api/message route *)

\* The body sent when get_ai_message raised (line 388).
ErrorResponse == <<"[Error generating message - please try again later]">>

\* mutant: the response of the except clause is sent whatever happened
api_message_failed(c) == [status |-> 500, message |-> ErrorResponse]

\* lines 380-389: the status and the "message" of the JSON body, for a call c
\* of get_ai_message
api_message(c) ==
    IF c.raised THEN [status |-> 500, message |-> ErrorResponse]
    ELSE [status |-> 200, message |-> c.ret]

\* A message is a sequence of pieces: single characters, or one of the
\* literals of app.py.  The characters of a piece:
Characters(piece) ==
    CASE piece = ArchiveSuffix[1] ->
           <<" ", "(", "f", "r", "o", "m", " ", "a", "r", "c", "h",
             "i", "v", "e", ")">>
      [] piece = ErrorMsg[1] ->
           <<"[", "N", "o", " ", "r", "e", "s", "p", "o", "n", "s",
             "e", " ", "a", "v", "a", "i", "l", "a", "b", "l", "e",
             " ", "-", " ", "p", "l", "e", "a", "s", "e", " ", "c",
             "h", "e", "c", "k", " ", "c", "o", "n", "f", "i", "g",
             "u", "r", "a", "t", "i", "o", "n", "]">>
      [] piece = ErrorResponse[1] ->
           <<"[", "E", "r", "r", "o", "r", " ", "g", "e", "n", "e",
             "r", "a", "t", "i", "n", "g", " ", "m", "e", "s", "s",
             "a", "g", "e", " ", "-", " ", "p", "l", "e", "a", "s",
             "e", " ", "t", "r", "y", " ", "a", "g", "a", "i", "n",
             " ", "l", "a", "t", "e", "r", "]">>
      [] OTHER -> <<piece>>

RECURSIVE Text(_)
Text(message) ==
    IF message = <<>> THEN <<>> ELSE Characters(Head(message)) \o Text(Tail(message))

UpperCase == <<"A", "B", "C", "D", "E", "F", "G", "H", "I", "J", "K", "L", "M",
               "N", "O", "P", "Q", "R", "S", "T", "U", "V", "W", "X", "Y", "Z">>
LowerCase == <<"a", "b", "c", "d", "e", "f", "g", "h", "i", "j", "k", "l", "m",
               "n", "o", "p", "q", "r", "s", "t", "u", "v", "w", "x", "y", "z">>

\* str.lower
lower(text) ==
    [i \in 1..Len(text) |->
        IF \E k \in 1..Len(UpperCase) : UpperCase[k] = text[i]
        THEN LowerCase[CHOOSE k \in 1..Len(UpperCase) : UpperCase[k] = text[i]]
        ELSE text[i]]

\* Python's "needle in text"
Contains(text, needle) ==
    \E i \in 0..(Len(text) - Len(needle)) :
        SubSeq(text, i + 1, i + Len(needle)) = needle

\* The condition test_error_handling_with_failed_plugins asserts on the body
\* (test_integration.py line 131).
SaysUnavailable(message) ==
    \/ Contains(lower(Text(message)),
                <<"c", "u", "r", "r", "e", "n", "t", "l", "y", " ",
                  "u", "n", "a", "v", "a", "i", "l", "a", "b", "l",
                  "e">>)
    \/ Contains(lower(Text(message)), <<"e", "r", "r", "o", "r">>)

----------------------------------------------------------------------------
(* plugins/registry.py: PluginRegistry.  Every method body runs under the   *)
(* registry's RLock, so each is one atomic step.                            *)

PluginNames == {"x", "y"}

\* Plugin objects: "d0" was registered at startup, "d1" and "d2" are the
\* objects a caller holds (the AIProviderPlugin built by thread t1 or t2).
PluginObjects == {"d0", "d1", "d2"}

\* dict without / with a key
Without(dict, name) == [n \in DOMAIN dict \ {name} |-> dict[n]]
With(dict, name, value) ==
    [n \in DOMAIN dict \cup {name} |-> IF n = name THEN value ELSE dict[n]]

EmptyDict == [n \in {} |-> "d0"]

\* mutant: a second registration replaces the first
register_plugin_overwrite(dict, name, plugin) ==
    [plugins |-> With(dict, name, plugin), result |-> name \notin DOMAIN dict]

\* lines 30-48: the dict afterwards and the value returned
register_plugin(dict, name, plugin) ==
    IF name \in DOMAIN dict
    THEN [plugins |-> dict, result |-> FALSE]
    ELSE [plugins |-> With(dict, name, plugin), result |-> TRUE]

\* mutant: the plugin is reported removed and kept
unregister_plugin_kept(dict, name) ==
    [plugins |-> dict, result |-> name \in DOMAIN dict]

\* lines 50-67
unregister_plugin(dict, name) ==
    IF name \notin DOMAIN dict
    THEN [plugins |-> dict, result |-> FALSE]
    ELSE [plugins |-> Without(dict, name), result |-> TRUE]

\* lines 69-80: Optional[AIProviderPlugin]
NoPlugin == [ok |-> FALSE, val |-> "d0"]
get_plugin(dict, name) ==
    IF name \in DOMAIN dict THEN [ok |-> TRUE, val |-> dict[name]] ELSE NoPlugin

\* lines 82-93
is_registered(dict, name) == name \in DOMAIN dict

\* mutant: the registry's own dict is returned
get_all_plugins_live(dict) == [object |-> "_plugins", items |-> dict]

\* lines 95-103: self._plugins.copy() is a new dict object holding the items
\* the registry's dict has at that moment
get_all_plugins(dict) == [object |-> "copy", items |-> dict]

\* lines 105-113: list(self._plugins.keys()), as the set of its elements
get_plugin_names(dict) == DOMAIN dict

\* lines 115-123
count(dict) == Cardinality(DOMAIN dict)

NoRegOp == [op |-> "none", name |-> "x", plugin |-> "d0", result |-> FALSE,
            before |-> EmptyDict]

Register(name, plugin) ==
    LET r == register_plugin(plugins, name, plugin)
    IN  /\ plugins' = r.plugins
        /\ regOp' = [op |-> "register", name |-> name, plugin |-> plugin,
                     result |-> r.result, before |-> plugins]
        /\ UNCHANGED <<registry_lock, caller>>
        /\ UNCHANGED <<orchVars, managerVars, integrationVars, providerVars>>

Unregister(name) ==
    LET r == unregister_plugin(plugins, name)
    IN  /\ plugins' = r.plugins
        /\ regOp' = [op |-> "unregister", name |-> name, plugin |-> "d0",
                     result |-> r.result, before |-> plugins]
        /\ UNCHANGED <<registry_lock, caller>>
        /\ UNCHANGED <<orchVars, managerVars, integrationVars, providerVars>>

GetPlugin(name) ==
    LET r == get_plugin(plugins, name)
    IN  /\ plugins' = plugins
        /\ regOp' = [op |-> "get", name |-> name, plugin |-> r.val,
                     result |-> r.ok, before |-> plugins]
        /\ UNCHANGED <<registry_lock, caller>>
        /\ UNCHANGED <<orchVars, managerVars, integrationVars, providerVars>>

\* lines 125-130
Clear ==
    /\ plugins' = EmptyDict
    /\ regOp' = [NoRegOp EXCEPT !.op = "clear", !.before = plugins]
    /\ UNCHANGED <<registry_lock, caller>>
    /\ UNCHANGED <<orchVars, managerVars, integrationVars, providerVars>>

----------------------------------------------------------------------------
(* plugins/plugin_manager.py: PluginManager.  A thread runs one operation   *)
(* at a time; an operation is a sequence of steps, each at most one call on *)
(* the registry (one holding of its lock).                                  *)

Threads == {"t1", "t2"}

\* The AIProviderPlugin object a thread builds at lines 238 / 281.
NewPlugin(t) == IF t = "t1" THEN "d1" ELSE "d2"

\* The attributes every subclass of BaseAIProvider has, whether or not it
\* overrides them: the base class declares them (abstract).
BaseAIProviderAttributes ==
    {"provider_name", "supported_models", "initialize", "generate_message", "health_check"}

\* The metadata fields a descriptor is required to carry (spec 4.2).
MetadataFields == {"name", "version", "author", "description"}

\* A unit of the plugin directory, by kind:
\*   ok       a BaseAIProvider subclass implementing every capability, with
\*            complete PLUGIN_METADATA
\*   broken   a module without any BaseAIProvider subclass
\*   partial  a BaseAIProvider subclass that leaves health_check unimplemented
\*   nometa   a complete subclass whose metadata lacks version and author
\*   absent   neither <name>.py nor a directory <name>
\* These are files <name>.py.  A directory <name> is one of
\*   package        like ok
\*   brokenpackage  like broken: the package imports and has no subclass
UnitKinds == {"ok", "broken", "partial", "nometa", "absent", "package", "brokenpackage"}

Unit(kind) ==
    [exists |-> kind # "absent",
     directory |-> kind \in {"package", "brokenpackage"},
     provider_class |-> kind \in {"ok", "partial", "nometa", "package"},
     implements |-> IF kind = "partial"
                    THEN BaseAIProviderAttributes \ {"health_check"}
                    ELSE IF kind \in {"ok", "nometa", "package"} THEN BaseAIProviderAttributes
                    ELSE {},
     metadata |-> IF kind \in {"ok", "partial", "package"} THEN MetadataFields
                  ELSE IF kind = "nometa" THEN {"name", "description"}
                  ELSE {}]

\* The unit lacks a Provider capability / a required metadata field.
LacksCapability(unit) ==
    unit.exists /\ (~unit.provider_class \/ unit.implements # BaseAIProviderAttributes)
MalformedMetadata(unit) ==
    unit.exists /\ unit.provider_class /\ ~(MetadataFields \subseteq unit.metadata)

\* lines 292-300
find_provider_class(unit) == unit.provider_class

\* hasattr(plugin.provider_class, attr): an attribute the class defines or
\* inherits from BaseAIProvider
hasattr(unit, attr) == attr \in unit.implements \cup BaseAIProviderAttributes

\* lines 302-320: TRUE when no PluginLoadError is raised.  The metadata is
\* read (line 305) and not checked.
validate_plugin(unit) ==
    /\ hasattr(unit, "provider_name")
    /\ hasattr(unit, "supported_models")
    /\ \A method \in {"initialize", "generate_message", "health_check"} : hasattr(unit, method)

\* lines 202-290: "plugin", "none" (not found) or "PluginLoadError"
load_plugin_from_file(unit) ==
    IF ~unit.exists THEN "none"
    ELSE IF ~find_provider_class(unit) THEN "PluginLoadError"
    ELSE IF ~validate_plugin(unit) THEN "PluginLoadError"
    ELSE "plugin"

\* The names in _loaded_modules after _load_plugin_from_file(name).  A file
\* unit is entered before its module runs (line 225) and taken out again
\* when the load fails (lines 249-250); a directory unit is entered once its
\* package is imported (line 262) and stays (lines 289-290).
loaded_modules_after(unit, mods, name) ==
    IF ~unit.exists THEN mods
    ELSE IF unit.directory THEN mods \cup {name}
    ELSE IF load_plugin_from_file(unit) = "plugin" THEN mods \cup {name}
    ELSE mods \ {name}

Idle == [op |-> "none", pc |-> "idle", name |-> "x", wasRegistered |-> FALSE,
         plugin |-> NoPlugin, result |-> "none"]

NoObs == [op |-> "none", name |-> "x", present |-> TRUE, reloading |-> FALSE]

\* lines 391-407: reload_plugin starts with unload_plugin
StartReload(t, name) ==
    /\ thr[t].pc = "idle"
    /\ thr' = [thr EXCEPT ![t] = [Idle EXCEPT !.op = "reload", !.pc = "unload_check",
                                              !.name = name,
                                              !.wasRegistered = is_registered(plugins, name)]]
    /\ UNCHANGED <<orchVars, integrationVars, providerVars, configVars, regOp, registry_lock, caller, plugins, loaded_modules, disabled_plugins, units, obs>>

\* lines 362-389
StartUnload(t, name) ==
    /\ thr[t].pc = "idle"
    /\ thr' = [thr EXCEPT ![t] = [Idle EXCEPT !.op = "unload", !.pc = "unload_check",
                                              !.name = name,
                                              !.wasRegistered = is_registered(plugins, name)]]
    /\ UNCHANGED <<orchVars, integrationVars, providerVars, configVars, regOp, registry_lock, caller, plugins, loaded_modules, disabled_plugins, units, obs>>

\* lines 170-200
StartLoad(t, name) ==
    /\ thr[t].pc = "idle"
    /\ thr' = [thr EXCEPT ![t] = [Idle EXCEPT !.op = "load", !.pc = "load_disabled",
                                              !.name = name,
                                              !.wasRegistered = is_registered(plugins, name)]]
    /\ UNCHANGED <<orchVars, integrationVars, providerVars, configVars, regOp, registry_lock, caller, plugins, loaded_modules, disabled_plugins, units, obs>>

\* line 374: registry.is_registered
UnloadCheck(t) ==
    /\ thr[t].pc = "unload_check"
    /\ thr' = [thr EXCEPT ![t].pc = IF is_registered(plugins, thr[t].name)
                                    THEN "unload_unregister" ELSE "unload_modules"]
    /\ UNCHANGED <<orchVars, integrationVars, providerVars, configVars, regOp, registry_lock, caller, plugins, loaded_modules, disabled_plugins, units, obs>>

\* line 375: registry.unregister_plugin
UnloadUnregister(t) ==
    /\ thr[t].pc = "unload_unregister"
    /\ plugins' = unregister_plugin(plugins, thr[t].name).plugins
    /\ thr' = [thr EXCEPT ![t].pc = "unload_modules"]
    /\ UNCHANGED <<orchVars, integrationVars, providerVars, configVars, regOp, registry_lock, caller, loaded_modules, disabled_plugins, units, obs>>

\* lines 377-385; reload_plugin goes on with load_plugin (line 407)
UnloadModules(t) ==
    /\ thr[t].pc = "unload_modules"
    /\ loaded_modules' = loaded_modules \ {thr[t].name}
    /\ thr' = [thr EXCEPT ![t] = IF thr[t].op = "reload"
                                 THEN [thr[t] EXCEPT !.pc = "load_disabled"]
                                 ELSE [thr[t] EXCEPT !.pc = "done", !.result = "true"]]
    /\ UNCHANGED <<orchVars, integrationVars, providerVars, configVars, regOp, registry_lock, caller, plugins, disabled_plugins, units, obs>>

\* lines 180-183
LoadDisabled(t) ==
    /\ thr[t].pc = "load_disabled"
    /\ thr' = [thr EXCEPT ![t] = IF thr[t].name \in Range(disabled_plugins)
                                 THEN [thr[t] EXCEPT !.pc = "done", !.result = "none"]
                                 ELSE [thr[t] EXCEPT !.pc = "load_check"]]
    /\ UNCHANGED <<orchVars, integrationVars, providerVars, configVars, regOp, registry_lock, caller, plugins, loaded_modules, disabled_plugins, units, obs>>

\* line 186: registry.is_registered
LoadCheck(t) ==
    /\ thr[t].pc = "load_check"
    /\ thr' = [thr EXCEPT ![t].pc = IF is_registered(plugins, thr[t].name)
                                    THEN "load_get" ELSE "load_file"]
    /\ UNCHANGED <<orchVars, integrationVars, providerVars, configVars, regOp, registry_lock, caller, plugins, loaded_modules, disabled_plugins, units, obs>>

\* line 188: registry.get_plugin
LoadGet(t) ==
    /\ thr[t].pc = "load_get"
    /\ LET r == get_plugin(plugins, thr[t].name)
       IN  thr' = [thr EXCEPT ![t] = [thr[t] EXCEPT !.pc = "done", !.plugin = r,
                                          !.result = IF r.ok THEN "plugin" ELSE "none"]]
    /\ UNCHANGED <<orchVars, integrationVars, providerVars, configVars, regOp, registry_lock, caller, plugins, loaded_modules, disabled_plugins, units, obs>>

\* line 191, lines 202-290: _load_plugin_from_file
LoadFile(t) ==
    /\ thr[t].pc = "load_file"
    /\ LET loaded == load_plugin_from_file(Unit(units[thr[t].name]))
       IN  /\ thr' = [thr EXCEPT ![t] =
                        IF loaded = "plugin"
                        THEN [thr[t] EXCEPT !.pc = "load_register",
                                            !.plugin = [ok |-> TRUE, val |-> NewPlugin(t)]]
                        ELSE [thr[t] EXCEPT !.pc = "done", !.result = loaded]]
           /\ loaded_modules' = loaded_modules_after(Unit(units[thr[t].name]),
                                                     loaded_modules, thr[t].name)
    /\ UNCHANGED <<orchVars, integrationVars, providerVars, configVars, regOp, registry_lock, caller, plugins, disabled_plugins, units, obs>>

\* lines 193-195: registry.register_plugin, whose result is not looked at
LoadRegister(t) ==
    /\ thr[t].pc = "load_register"
    /\ plugins' = register_plugin(plugins, thr[t].name, thr[t].plugin.val).plugins
    /\ thr' = [thr EXCEPT ![t] = [thr[t] EXCEPT !.pc = "done", !.result = "plugin"]]
    /\ UNCHANGED <<orchVars, integrationVars, providerVars, configVars, regOp, registry_lock, caller, loaded_modules, disabled_plugins, units, obs>>

\* the operation returns to its caller
Return(t) ==
    /\ thr[t].pc = "done"
    /\ thr' = [thr EXCEPT ![t] = Idle]
    /\ UNCHANGED <<orchVars, integrationVars, providerVars, configVars, regOp, registry_lock, caller, plugins, loaded_modules, disabled_plugins, units, obs>>

\* Thread t is inside reload_plugin(name), past the start of its unload step
\* and before the end of its load step, and name was registered when it began.
Reloading(name) ==
    \E t \in Threads :
        /\ thr[t].op = "reload"
        /\ thr[t].name = name
        /\ thr[t].wasRegistered
        /\ thr[t].pc \notin {"idle", "done"}

\* A concurrent observer reads the registry: get_plugin, is_registered or
\* get_all_plugins (each one holding of the lock).
Observe(op, name) ==
    /\ obs' = [op |-> op, name |-> name,
               present |-> IF op = "get" THEN get_plugin(plugins, name).ok
                           ELSE IF op = "is_registered" THEN is_registered(plugins, name)
                           ELSE name \in DOMAIN get_all_plugins(plugins).items,
               reloading |-> Reloading(name)]
    /\ UNCHANGED <<orchVars, integrationVars, providerVars, configVars, regOp, registry_lock, caller, plugins, loaded_modules, disabled_plugins, units, thr>>

ObserverOps == {"get", "is_registered", "get_all_plugins"}

----------------------------------------------------------------------------
(* plugins/registry.py: PluginRegistry.validate_plugin *)

\* What validate_plugin can be handed: an AIProviderPlugin whose
\* provider_class is None or a class with some attributes and whose metadata
\* holds some keys (AIProviderPlugin.__init__ turns None into {}), or an
\* object that is no AIProviderPlugin.
NoClass == [none |-> TRUE, attrs |-> {}]
Class(attrs) == [none |-> FALSE, attrs |-> attrs]
NotAPlugin == [kind |-> "other", provider_class |-> NoClass, metadata |-> {}]
Descriptors ==
    {NotAPlugin} \cup
    {[kind |-> "plugin", provider_class |-> c, metadata |-> m] :
        c \in {NoClass} \cup {Class(a) : a \in SUBSET BaseAIProviderAttributes},
        m \in SUBSET MetadataFields}

\* lines 320-352, the body of the try: "True", "False", or "raise" when
\* reading plugin.provider_class raises AttributeError
validate_plugin_body(plugin) ==
    IF plugin.kind # "plugin" THEN "raise"
    ELSE IF plugin.provider_class.none THEN "False"
    ELSE IF plugin.metadata = {} THEN "False"
    ELSE IF \E field \in {"name", "version", "author", "description"} :
               field \notin plugin.metadata
    THEN "False"
    ELSE IF "provider_name" \notin plugin.provider_class.attrs THEN "False"
    ELSE IF "supported_models" \notin plugin.provider_class.attrs THEN "False"
    ELSE IF \E method \in {"initialize", "generate_message", "health_check"} :
               method \notin plugin.provider_class.attrs
    THEN "False"
    ELSE "True"

\* mutant: the metadata is not looked at, as in PluginManager._validate_plugin
PluginRegistry_validate_plugin_classonly(plugin) ==
    [result |-> /\ plugin.kind = "plugin"
                /\ ~plugin.provider_class.none
                /\ BaseAIProviderAttributes \subseteq plugin.provider_class.attrs,
     raised |-> FALSE]

\* lines 310-357: the value returned and whether an exception left the method
PluginRegistry_validate_plugin(plugin) ==
    [result |-> validate_plugin_body(plugin) = "True", raised |-> FALSE]

ValidatePlugin(plugin) ==
    LET r == PluginRegistry_validate_plugin(plugin)
    IN  /\ regOp' = [op |-> "validate", name |-> "x", plugin |-> "d0",
                     result |-> r.result, before |-> plugins,
                     descriptor |-> plugin, raised |-> r.raised]
        /\ UNCHANGED <<plugins, registry_lock, caller>>
        /\ UNCHANGED <<orchVars, managerVars, integrationVars, providerVars>>

----------------------------------------------------------------------------
(* plugins/registry.py: calls on one PluginRegistry made by several threads, *)
(* step by step.  A call acquires self._lock, runs the statements of the     *)
(* method body one at a time, releases the lock and returns.                 *)

\* threading.RLock: the thread that owns it and how many times it acquired it
NoLock == [owner |-> "none", count |-> 0]

\* mutant: the lock never makes a thread wait
RLock_available_always(l, t) == TRUE

\* line 27, and the "with self._lock:" of every method: a thread gets the
\* lock when no other thread owns it
RLock_available(l, t) == l.owner \in {"none", t}

RLock_acquire(l, t) == [owner |-> t, count |-> l.count + 1]

RLock_release(l) ==
    IF l.count <= 1 THEN NoLock ELSE [l EXCEPT !.count = l.count - 1]

\* The map a caller got from get_all_plugins and what it should hold: the
\* items of the registry when the call was made, changed only by the caller.
NoView == [held |-> FALSE, object |-> "copy", items |-> EmptyDict,
           expected |-> EmptyDict]

\* What the caller reads when it iterates the map it holds.
Items(view) == IF view.object = "_plugins" THEN plugins ELSE view.items

\* caller[t]: the call thread t is making.
\*   pc        idle, acquire (waiting for the lock), test and store (register),
\*             test and delete (unregister), read (get_plugin), copy
\*             (get_all_plugins), release, done (returned, result not yet used)
\*   found     the value of "name in self._plugins" read by the test
\*   result    what the call returned; "KeyError" when del raised
\*   got       what get_plugin returned
\*   unused    the name was not registered when the call was made
\*   overlap   the threads that had a call in progress during this one
\*   atomic    the call changed the dict and returned as the whole method
\*             does when run alone on the dict its effect step found
NoFrame == [pc |-> "idle", op |-> "none", name |-> "x", plugin |-> "d0",
            found |-> FALSE, result |-> "none", got |-> NoPlugin,
            unused |-> FALSE, overlap |-> {}, atomic |-> TRUE, view |-> NoView]

CallersQuiet ==
    /\ registry_lock = NoLock
    /\ caller = [t \in Threads |-> NoFrame]

RegistryOps == {"register", "unregister", "get", "get_all_plugins"}

InProgress(t) == caller[t].pc \notin {"idle", "done"}

Bool(b) == IF b THEN "True" ELSE "False"

\* A thread calls a method of the registry.
RegCall(t, op, name) ==
    /\ caller[t].pc = "idle"
    /\ caller' = [u \in Threads |->
          IF u = t
          THEN [NoFrame EXCEPT !.pc = "acquire", !.op = op, !.name = name,
                               !.plugin = NewPlugin(t),
                               !.unused = name \notin DOMAIN plugins,
                               !.overlap = {v \in Threads \ {t} : InProgress(v)},
                               !.view = caller[t].view]
          ELSE IF InProgress(u)
          THEN [caller[u] EXCEPT !.overlap = @ \cup {t}]
          ELSE caller[u]]
    /\ UNCHANGED <<plugins, regOp, registry_lock>>
    /\ UNCHANGED <<orchVars, managerVars, integrationVars, providerVars>>

\* with self._lock: (entry)
RegAcquire(t) ==
    /\ caller[t].pc = "acquire"
    /\ RLock_available(registry_lock, t)
    /\ registry_lock' = RLock_acquire(registry_lock, t)
    /\ caller' = [caller EXCEPT ![t].pc =
                      CASE caller[t].op \in {"register", "unregister"} -> "test"
                        [] caller[t].op = "get" -> "read"
                        [] OTHER -> "copy"]
    /\ UNCHANGED <<plugins, regOp>>
    /\ UNCHANGED <<orchVars, managerVars, integrationVars, providerVars>>

\* lines 42 and 61: the test of "name in self._plugins"
RegTest(t) ==
    /\ caller[t].pc = "test"
    /\ LET found == caller[t].name \in DOMAIN plugins
           returns == IF caller[t].op = "register" THEN found ELSE ~found
       IN  caller' = [caller EXCEPT
                         ![t].found = found,
                         ![t].result = IF returns THEN "False" ELSE "none",
                         ![t].pc = IF returns THEN "release"
                                   ELSE IF caller[t].op = "register" THEN "store"
                                   ELSE "delete"]
    /\ UNCHANGED <<plugins, regOp, registry_lock>>
    /\ UNCHANGED <<orchVars, managerVars, integrationVars, providerVars>>

\* lines 46-48: self._plugins[name] = plugin; return True
RegStore(t) ==
    /\ caller[t].pc = "store"
    /\ LET alone == register_plugin(plugins, caller[t].name, caller[t].plugin)
           after == With(plugins, caller[t].name, caller[t].plugin)
       IN  /\ plugins' = after
           /\ caller' = [caller EXCEPT
                            ![t].result = "True", ![t].pc = "release",
                            ![t].atomic = (alone.result /\ alone.plugins = after)]
    /\ UNCHANGED <<regOp, registry_lock>>
    /\ UNCHANGED <<orchVars, managerVars, integrationVars, providerVars>>

\* lines 65-67: del self._plugins[name]; return True
RegDelete(t) ==
    /\ caller[t].pc = "delete"
    /\ LET alone == unregister_plugin(plugins, caller[t].name)
           present == caller[t].name \in DOMAIN plugins
       IN  /\ plugins' = IF present THEN Without(plugins, caller[t].name) ELSE plugins
           /\ caller' = [caller EXCEPT
                            ![t].result = IF present THEN "True" ELSE "KeyError",
                            ![t].pc = "release",
                            ![t].atomic = (present /\ alone.result)]
    /\ UNCHANGED <<regOp, registry_lock>>
    /\ UNCHANGED <<orchVars, managerVars, integrationVars, providerVars>>

\* line 80: return self._plugins.get(name)
RegRead(t) ==
    /\ caller[t].pc = "read"
    /\ caller' = [caller EXCEPT ![t].got = get_plugin(plugins, caller[t].name),
                                ![t].pc = "release"]
    /\ UNCHANGED <<plugins, regOp, registry_lock>>
    /\ UNCHANGED <<orchVars, managerVars, integrationVars, providerVars>>

\* line 103: return self._plugins.copy()
RegCopy(t) ==
    /\ caller[t].pc = "copy"
    /\ LET r == get_all_plugins(plugins)
       IN  caller' = [caller EXCEPT
                         ![t].view = [held |-> TRUE, object |-> r.object,
                                      items |-> r.items, expected |-> plugins],
                         ![t].pc = "release"]
    /\ UNCHANGED <<plugins, regOp, registry_lock>>
    /\ UNCHANGED <<orchVars, managerVars, integrationVars, providerVars>>

\* with self._lock: (exit), and the return to the caller
RegRelease(t) ==
    /\ caller[t].pc = "release"
    /\ registry_lock' = RLock_release(registry_lock)
    /\ caller' = [caller EXCEPT ![t].pc = "done"]
    /\ UNCHANGED <<plugins, regOp>>
    /\ UNCHANGED <<orchVars, managerVars, integrationVars, providerVars>>

\* The caller goes on; it keeps the map it holds.
RegReturn(t) ==
    /\ caller[t].pc = "done"
    /\ caller' = [caller EXCEPT ![t] = [NoFrame EXCEPT !.view = caller[t].view]]
    /\ UNCHANGED <<plugins, regOp, registry_lock>>
    /\ UNCHANGED <<orchVars, managerVars, integrationVars, providerVars>>

\* dict[name] = value when the key is missing, del dict[name] when it is there
Toggle(dict, name, value) ==
    IF name \in DOMAIN dict THEN Without(dict, name) ELSE With(dict, name, value)

\* The caller changes the map it got from get_all_plugins.
MutateView(t, name) ==
    /\ caller[t].pc = "idle"
    /\ caller[t].view.held
    /\ LET view == caller[t].view
           own == NewPlugin(t)
       IN  /\ caller' = [caller EXCEPT
                            ![t].view.items = IF view.object = "_plugins" THEN @
                                              ELSE Toggle(@, name, own),
                            ![t].view.expected = Toggle(@, name, own)]
           /\ plugins' = IF view.object = "_plugins"
                         THEN Toggle(plugins, name, own) ELSE plugins
    /\ UNCHANGED <<regOp, registry_lock>>
    /\ UNCHANGED <<orchVars, managerVars, integrationVars, providerVars>>

----------------------------------------------------------------------------
(* plugins/plugin_manager.py: whole PluginManager operations, called one at *)
(* a time, and the plugin configuration file.                               *)

\* lines 59-65: the keys of the configuration this model follows
DefaultConfig == [enabled_plugins |-> <<>>, disabled_plugins |-> <<>>]

NoConfigFile == [exists |-> FALSE, data |-> DefaultConfig]

\* mutant: the configuration is never written
save_config_dropped(file, config) == file

\* lines 76-82: the file afterwards
save_config(file, config) == [exists |-> TRUE, data |-> config]

\* lines 56-74: the configuration read, and the file afterwards (a missing
\* file is created with the defaults)
load_config(file) ==
    IF ~file.exists
    THEN [config |-> DefaultConfig, file |-> save_config(file, DefaultConfig)]
    ELSE [config |-> file.data, file |-> file]

\* mutant: the name stays in the other list
Remove_kept(list, x) == list

\* lines 463-464 and 478-479: "if x in list: list.remove(x)", which takes
\* out the first occurrence
RECURSIVE Remove(_, _)
Remove(list, x) ==
    IF list = <<>> THEN <<>>
    ELSE IF Head(list) = x THEN Tail(list)
    ELSE <<Head(list)>> \o Remove(Tail(list), x)

\* lines 460-461 and 475-476: "if x not in list: list.append(x)"
AppendIfMissing(list, x) == IF x \in Range(list) THEN list ELSE Append(list, x)

\* The sequences that list each element of S once.
Orderings(S) ==
    {order \in [1..Cardinality(S) -> S] : \A i, j \in 1..Cardinality(S) : order[i] = order[j] => i = j}

\* lines 170-200: the registry and the loaded modules afterwards, and the
\* result: "plugin", "none" or "PluginLoadError"
load_plugin(reg, mods, disabled, us, name, new) ==
    IF name \in Range(disabled)
    THEN [plugins |-> reg, modules |-> mods, result |-> "none"]
    ELSE IF is_registered(reg, name)
    THEN [plugins |-> reg, modules |-> mods,
          result |-> IF get_plugin(reg, name).ok THEN "plugin" ELSE "none"]
    ELSE LET loaded == load_plugin_from_file(Unit(us[name]))
             modules == loaded_modules_after(Unit(us[name]), mods, name)
         IN  IF loaded = "plugin"
             THEN [plugins |-> register_plugin(reg, name, new).plugins,
                   modules |-> modules, result |-> "plugin"]
             ELSE [plugins |-> reg, modules |-> modules, result |-> loaded]

\* lines 362-389
unload_plugin(reg, mods, name) ==
    [plugins |-> IF is_registered(reg, name) THEN unregister_plugin(reg, name).plugins ELSE reg,
     modules |-> mods \ {name}]

\* lines 84-113: the units found, in the order os.listdir gives them.  A
\* unit is found whether or not it can be loaded.
discover_plugins(us) == Orderings({n \in DOMAIN us : Unit(us[n]).exists})

\* lines 334-347 and 350-357: load the names in turn; a name in skip is
\* passed over, a PluginLoadError is logged and the loop goes on.
RECURSIVE LoadEach(_, _, _, _, _, _)
LoadEach(names, skip, st, disabled, us, new) ==
    IF names = <<>> THEN st
    ELSE IF Head(names) \in skip
    THEN LoadEach(Tail(names), skip, st, disabled, us, new)
    ELSE LET r == load_plugin(st.plugins, st.modules, disabled, us, Head(names), new)
         IN  LoadEach(Tail(names), skip,
                      [plugins |-> r.plugins, modules |-> r.modules,
                       loaded |-> IF r.result = "plugin" THEN st.loaded \cup {Head(names)}
                                  ELSE st.loaded],
                      disabled, us, new)

\* lines 322-360: the registry and modules afterwards, and the names of the
\* returned dict.  The first loop skips the disabled names, the second the
\* names already in the returned dict.
load_all_plugins(reg, mods, enabled, disabled, us, discovered, new) ==
    LET first == LoadEach(discovered, Range(disabled),
                          [plugins |-> reg, modules |-> mods, loaded |-> {}],
                          disabled, us, new)
    IN  LoadEach(enabled, first.loaded, first, disabled, us, new)

\* What load_all_plugins returns about the units that failed: nothing, the
\* returned dict has the loaded plugins only (lines 329, 345, 355, 360).
ReportFailed(loaded) == {}

\* mgrOp: the last operation, its argument and result; for load_all_plugins
\* the units discovered and the names of the returned dict; the registry
\* before the operation; whether the process restarted since the last
\* disable_plugin; for load_plugin the names in _loaded_modules before.
NoMgrOp == [op |-> "none", name |-> "x", result |-> "none", loaded |-> {},
            before |-> EmptyDict, discovered |-> <<>>, restarted |-> FALSE,
            modules |-> {}]

LoadPlugin(name) ==
    LET r == load_plugin(plugins, loaded_modules, disabled_plugins, units, name, "d1")
    IN  /\ plugins' = r.plugins
        /\ loaded_modules' = r.modules
        /\ mgrOp' = [NoMgrOp EXCEPT !.op = "load", !.name = name, !.result = r.result,
                                    !.before = plugins, !.restarted = mgrOp.restarted,
                                    !.modules = loaded_modules]
        /\ UNCHANGED <<orchVars, integrationVars, providerVars, regOp, registry_lock, caller, disabled_plugins,
                       units, thr, obs, enabled_plugins, configFile, denied>>

UnloadPlugin(name) ==
    LET r == unload_plugin(plugins, loaded_modules, name)
    IN  /\ plugins' = r.plugins
        /\ loaded_modules' = r.modules
        /\ mgrOp' = [NoMgrOp EXCEPT !.op = "unload", !.name = name, !.result = "true",
                                    !.before = plugins, !.restarted = mgrOp.restarted]
        /\ UNCHANGED <<orchVars, integrationVars, providerVars, regOp, registry_lock, caller, disabled_plugins,
                       units, thr, obs, enabled_plugins, configFile, denied>>

LoadAllPlugins ==
    \E discovered \in discover_plugins(units) :
        LET r == load_all_plugins(plugins, loaded_modules, enabled_plugins,
                                  disabled_plugins, units, discovered, "d1")
        IN  /\ plugins' = r.plugins
            /\ loaded_modules' = r.modules
            /\ mgrOp' = [NoMgrOp EXCEPT !.op = "load_all", !.result = "dict",
                                        !.loaded = r.loaded, !.before = plugins,
                                        !.discovered = discovered,
                                        !.restarted = mgrOp.restarted]
            /\ UNCHANGED <<orchVars, integrationVars, providerVars, regOp, registry_lock, caller, disabled_plugins,
                           units, thr, obs, enabled_plugins, configFile, denied>>

\* lines 455-468
EnablePlugin(name) ==
    LET enabled == AppendIfMissing(enabled_plugins, name)
        disabled == Remove(disabled_plugins, name)
    IN  /\ enabled_plugins' = enabled
        /\ disabled_plugins' = disabled
        /\ configFile' = save_config(configFile, [enabled_plugins |-> enabled,
                                                  disabled_plugins |-> disabled])
        /\ denied' = denied \ {name}
        /\ mgrOp' = [NoMgrOp EXCEPT !.op = "enable", !.name = name, !.before = plugins,
                                    !.restarted = mgrOp.restarted]
        /\ UNCHANGED <<orchVars, integrationVars, providerVars, registryVars,
                       loaded_modules, units, thr, obs>>

\* lines 470-487
DisablePlugin(name) ==
    LET disabled == AppendIfMissing(disabled_plugins, name)
        enabled == Remove(enabled_plugins, name)
        r == IF is_registered(plugins, name)
             THEN unload_plugin(plugins, loaded_modules, name)
             ELSE [plugins |-> plugins, modules |-> loaded_modules]
    IN  /\ enabled_plugins' = enabled
        /\ disabled_plugins' = disabled
        /\ configFile' = save_config(configFile, [enabled_plugins |-> enabled,
                                                  disabled_plugins |-> disabled])
        /\ plugins' = r.plugins
        /\ loaded_modules' = r.modules
        /\ denied' = denied \cup {name}
        /\ mgrOp' = [NoMgrOp EXCEPT !.op = "disable", !.name = name, !.before = plugins]
        /\ UNCHANGED <<orchVars, integrationVars, providerVars, regOp, registry_lock, caller, units, thr, obs>>

\* lines 34-54: the process ends and a new PluginManager is constructed on
\* the same configuration file and plugin directory
Restart ==
    LET r == load_config(configFile)
    IN  /\ plugins' = EmptyDict
        /\ loaded_modules' = {}
        /\ enabled_plugins' = r.config.enabled_plugins
        /\ disabled_plugins' = r.config.disabled_plugins
        /\ configFile' = r.file
        /\ mgrOp' = [NoMgrOp EXCEPT !.op = "restart", !.before = plugins, !.restarted = TRUE]
        /\ UNCHANGED <<orchVars, integrationVars, providerVars, regOp, registry_lock, caller, units, thr, obs, denied>>

----------------------------------------------------------------------------
(* plugins/integration.py: PluginIntegration, and the provider map of       *)
(* PluginAwareAIClient (plugin_client.py).  A dict is a sequence of         *)
(* [key, value] entries in insertion order.                                 *)

\* The plugins registered by _register_builtin_plugins (lines 46-50).
BuiltinPlugins == {"openrouter", "together", "deepinfra"}

\* str.lower() on the provider names of the configurations tried
Lower(name) ==
    CASE name = "OpenRouter" -> "openrouter"
      [] name = "Together" -> "together"
      [] name = "Anthropic" -> "anthropic"
      [] name = "DeepInfra" -> "deepinfra"
      [] name = "Groq" -> "groq"
      [] name = "Gemini" -> "gemini"
      [] name = "Mistral" -> "mistral"
      [] name = "You.com" -> "you.com"
      [] name = "Custom" -> "custom"
      [] OTHER -> name

\* lines 79-86: Optional[str]
map_legacy_to_plugin(provider_name) ==
    IF provider_name \in BuiltinPlugins
    THEN [ok |-> TRUE, val |-> provider_name]
    ELSE [ok |-> FALSE, val |-> "none"]

Keys(dict) == [i \in 1..Len(dict) |-> dict[i].key]

\* dict[key] = value: in place for a key the dict has, else at the end
DictSet(dict, key, value) ==
    IF \E i \in 1..Len(dict) : dict[i].key = key
    THEN [i \in 1..Len(dict) |-> IF dict[i].key = key
                                 THEN [key |-> key, value |-> value] ELSE dict[i]]
    ELSE Append(dict, [key |-> key, value |-> value])

\* builtin/openrouter_provider.py lines 54-72 (the other built-in providers
\* alike): initialize() is true when validate_config() passes and the
\* client is constructed; env is the set of plugins whose client
\* constructor raises.
initialize(plugin_name, config, env) == config.valid /\ plugin_name \notin env

NoInstance == [ok |-> FALSE, val |-> [plugin |-> "none", initialized |-> FALSE]]

\* mutant: the instance is kept whatever initialize() returned
create_provider_unchecked(plugin_name, config, reg, env) ==
    IF ~get_plugin(reg, plugin_name).ok THEN NoInstance
    ELSE [ok |-> TRUE, val |-> [plugin |-> plugin_name,
                                initialized |-> initialize(plugin_name, config, env)]]

\* lines 88-113 (and plugin_manager.py lines 420-449): the instance, which
\* records what its initialize() returned, or None
create_provider_from_config(plugin_name, config, reg, env) ==
    IF ~get_plugin(reg, plugin_name).ok THEN NoInstance
    ELSE LET provider == [plugin |-> plugin_name,
                          initialized |-> initialize(plugin_name, config, env)]
         IN  IF provider.initialized THEN [ok |-> TRUE, val |-> provider] ELSE NoInstance

\* lines 59-77: the providers dict after the loop over the configured records
RECURSIVE initialize_providers(_, _, _, _)
initialize_providers(legacy_providers, reg, env, dict) ==
    IF legacy_providers = <<>> THEN dict
    ELSE LET provider_config == Head(legacy_providers)
             provider_name == Lower(provider_config.name)
             plugin_name == map_legacy_to_plugin(provider_name)
             provider == create_provider_from_config(plugin_name.val, provider_config, reg, env)
         IN  initialize_providers(Tail(legacy_providers), reg, env,
                 IF plugin_name.ok /\ provider.ok
                 THEN DictSet(dict, provider_name, provider.val)
                 ELSE dict)

\* mutant: the dict is not cleared first
reload_providers_kept(config, reg, env, dict) ==
    initialize_providers(config, reg, env, dict)

\* lines 163-166: the providers dict afterwards
reload_providers(config, reg, env, dict) ==
    initialize_providers(config, reg, env, <<>>)

\* lines 127-161: the providers dict afterwards and the value returned
add_custom_provider(plugin_name, config, reg, env, dict) ==
    LET provider == create_provider_from_config(plugin_name, config, reg, env)
    IN  IF provider.ok
        THEN [providers |-> DictSet(dict, config.name, provider.val), result |-> TRUE]
        ELSE [providers |-> dict, result |-> FALSE]

\* lines 115-117: a copy of the dict
get_providers(dict) == dict

\* The outcomes of one provider.health_check() call.
HealthOutcomes == {"true", "false", "raise"}

EmptyMap == [k \in {} |-> FALSE]

\* mutant: a health check that raises ends the loop
RECURSIVE health_check_all_abort(_, _, _)
health_check_all_abort(dict, outcome, health_status) ==
    IF dict = <<>> THEN health_status
    ELSE IF outcome[Head(dict).key] = "raise" THEN health_status
    ELSE health_check_all_abort(Tail(dict), outcome,
             With(health_status, Head(dict).key, outcome[Head(dict).key] = "true"))

\* plugin_client.py lines 124-143 (integration.py lines 172-181 alike): the
\* dict returned
RECURSIVE health_check_all(_, _, _)
health_check_all(dict, outcome, health_status) ==
    IF dict = <<>> THEN health_status
    ELSE health_check_all(Tail(dict), outcome,
             With(health_status, Head(dict).key,
                  IF outcome[Head(dict).key] = "raise" THEN FALSE
                  ELSE outcome[Head(dict).key] = "true"))

\* integOp: the last operation and the one before it; for health_check_all
\* the outcome of each provider's health check and the dict returned; the
\* client's keys before.
NoIntegOp == [op |-> "none", prev |-> "none", result |-> FALSE, outcome |-> EmptyMap,
              health |-> EmptyMap, before |-> <<>>]

\* The provider records a configuration can hold, and the configurations tried.
ConfigOpenRouter == [name |-> "OpenRouter", valid |-> TRUE]
ConfigTogether == [name |-> "Together", valid |-> TRUE]
ConfigTogetherInvalid == [name |-> "Together", valid |-> FALSE]
ConfigAnthropic == [name |-> "Anthropic", valid |-> TRUE]
StartupConfigs ==
    {<<>>, <<ConfigOpenRouter>>, <<ConfigOpenRouter, ConfigTogether>>,
     <<ConfigOpenRouter, ConfigTogetherInvalid>>, <<ConfigTogether, ConfigAnthropic>>}

\* lines 208-289: the variables read, in the order of the if statements, with
\* the name of the record each one gives
EnvironmentVariables ==
    <<[variable |-> "OPENROUTER_API_KEY", name |-> "OpenRouter"],
      [variable |-> "TOGETHER_API_KEY", name |-> "Together"],
      [variable |-> "DEEPINFRA_API_KEY", name |-> "DeepInfra"],
      [variable |-> "ANTHROPIC_API_KEY", name |-> "Anthropic"],
      [variable |-> "GROQ_API_KEY", name |-> "Groq"],
      [variable |-> "GOOGLE_AI_API_KEY", name |-> "Gemini"],
      [variable |-> "MISTRAL_API_KEY", name |-> "Mistral"],
      [variable |-> "YOUCOM_API_KEY", name |-> "You.com"]>>

\* lines 208-289: the provider records for an environment, given as the set
\* of variables that are set to a non-empty value.  Every record carries an
\* api_key, a base_url and a model, so its validate_config() passes.
RECURSIVE LoadFrom(_, _)
LoadFrom(variables, environ) ==
    IF variables = <<>> THEN <<>>
    ELSE (IF Head(variables).variable \in environ
          THEN <<[name |-> Head(variables).name, valid |-> TRUE]>>
          ELSE <<>>) \o LoadFrom(Tail(variables), environ)

load_providers_from_env(environ) == LoadFrom(EnvironmentVariables, environ)

\* The environments PluginAwareAIClient() is constructed in.
Environments ==
    SUBSET {"OPENROUTER_API_KEY", "ANTHROPIC_API_KEY", "MISTRAL_API_KEY"}

\* plugin_client.py lines 35-39: the configuration given, or the one derived
\* from the environment when none is given
ClientConfigs ==
    StartupConfigs \cup {load_providers_from_env(environ) : environ \in Environments}

\* The arguments of add_custom_provider tried.
CustomPlugins == {"openrouter", "x"}
CustomConfigs == {[name |-> n, valid |-> v] : n \in {"openrouter", "Custom"}, v \in BOOLEAN}

\* plugin_client.py lines 190-200
ReloadProviders ==
    LET dict == reload_providers(integration.config, plugins, integration.env,
                                 integration.providers)
    IN  /\ integration' = [integration EXCEPT !.providers = dict]
        /\ client_providers' = get_providers(dict)
        /\ providers' = Keys(get_providers(dict))
        /\ integOp' = [NoIntegOp EXCEPT !.op = "reload", !.before = Keys(client_providers),
                                        !.prev = integOp.op]
        /\ UNCHANGED <<cacheFile, lastFile, fuzzy_threshold, cache_probability, call, request,
                       registryVars, managerVars, providerVars>>

\* plugin_client.py lines 169-188
AddCustomProvider(plugin_name, config) ==
    LET r == add_custom_provider(plugin_name, config, plugins, integration.env,
                                 integration.providers)
    IN  /\ integration' = [integration EXCEPT !.providers = r.providers]
        /\ client_providers' = IF r.result THEN get_providers(r.providers)
                               ELSE client_providers
        /\ providers' = IF r.result THEN Keys(get_providers(r.providers)) ELSE providers
        /\ integOp' = [NoIntegOp EXCEPT !.op = "add", !.result = r.result,
                                        !.before = Keys(client_providers),
                                        !.prev = integOp.op]
        /\ UNCHANGED <<cacheFile, lastFile, fuzzy_threshold, cache_probability, call, request,
                       registryVars, managerVars, providerVars>>

\* plugin_client.py lines 124-143
HealthCheckAll ==
    \E outcome \in [Range(Keys(client_providers)) -> HealthOutcomes] :
        /\ integOp' = [NoIntegOp EXCEPT !.op = "health", !.outcome = outcome,
                                        !.health = health_check_all(client_providers, outcome, EmptyMap),
                                        !.before = Keys(client_providers),
                                        !.prev = integOp.op]
        /\ UNCHANGED <<orchVars, registryVars, managerVars, providerVars,
                       integration, client_providers>>

\* The environment changes: the client constructor of a plugin starts or
\* stops raising.
EnvChange(plugin_name) ==
    /\ integration' = [integration EXCEPT !.env =
                          IF plugin_name \in integration.env
                          THEN integration.env \ {plugin_name}
                          ELSE integration.env \cup {plugin_name}]
    /\ integOp' = [NoIntegOp EXCEPT !.op = "env", !.before = Keys(client_providers),
                                        !.prev = integOp.op]
    /\ UNCHANGED <<orchVars, registryVars, managerVars, providerVars, client_providers>>

NoIntegration == [config |-> <<>>, env |-> {}, providers |-> <<>>,
                  startup |-> [env |-> {}, keys |-> <<>>]]

\* lines 44-57: the registry after the loop over the three built-in plugins;
\* a registration that fails is logged and the loop goes on
RECURSIVE RegisterEach(_, _)
RegisterEach(names, reg) ==
    IF names = <<>> THEN reg
    ELSE RegisterEach(Tail(names), register_plugin(reg, Head(names), "d0").plugins)

register_builtin_plugins(reg) ==
    RegisterEach(<<"openrouter", "together", "deepinfra">>, reg)

\* lines 25-41: the process starts again and PluginIntegration.__init__ runs
\* with the same application configuration: a new PluginManager reads the
\* plugin configuration file, the built-in plugins are registered, and the
\* providers are created from the configured records
ConstructIntegration ==
    LET r == load_config(configFile)
        reg == register_builtin_plugins(EmptyDict)
        dict == initialize_providers(integration.config, reg, integration.env, <<>>)
    IN  /\ plugins' = reg
        /\ loaded_modules' = {}
        /\ enabled_plugins' = r.config.enabled_plugins
        /\ disabled_plugins' = r.config.disabled_plugins
        /\ configFile' = r.file
        /\ mgrOp' = [NoMgrOp EXCEPT !.op = "restart", !.before = plugins, !.restarted = TRUE]
        /\ integration' = [integration EXCEPT
                               !.providers = dict,
                               !.startup = [env |-> integration.env, keys |-> Keys(dict)]]
        /\ client_providers' = get_providers(dict)
        /\ providers' = Keys(get_providers(dict))
        /\ integOp' = [NoIntegOp EXCEPT !.op = "construct", !.before = Keys(client_providers),
                                        !.prev = integOp.op]
        /\ UNCHANGED <<cacheFile, lastFile, fuzzy_threshold, cache_probability, call, request>>
        /\ UNCHANGED <<regOp, registry_lock, caller, units, thr, obs, denied, providerVars>>

----------------------------------------------------------------------------
(* plugins/builtin: one instance of a built-in provider *)

BuiltinKinds ==
    {"openrouter", "together", "deepinfra", "anthropic", "groq", "mistral", "gemini", "youcom"}

\* What the backend does with one request: the call raises (transport, auth,
\* timeout), the reply has no choices / no content block / no answer, or it
\* has the given text.
Space == <<" ">>
BackendReplies ==
    {[kind |-> "raise", text |-> <<>>], [kind |-> "no_choices", text |-> <<>>]}
        \cup {[kind |-> "text", text |-> t] : t \in {<<>>, Space, A, <<" ", "a">>}}

\* str.strip() on the texts tried
RECURSIVE LStrip(_)
LStrip(text) ==
    IF text # <<>> /\ Head(text) = " " THEN LStrip(Tail(text)) ELSE text
RECURSIVE RStrip(_)
RStrip(text) ==
    IF text # <<>> /\ text[Len(text)] = " " THEN RStrip(SubSeq(text, 1, Len(text) - 1)) ELSE text
Strip(text) == RStrip(LStrip(text))

\* base_provider.py lines 58-61: BaseAIProvider.__init__ sets _client to
\* None; no constructor sets _model, which GeminiProvider.initialize assigns
\* at line 58.
NewProvider(kind) ==
    [kind |-> kind, client |-> FALSE, has_model |-> FALSE, initialized |-> "never",
     op |-> "new", reply |-> [kind |-> "raise", text |-> <<>>],
     out |-> "none", content |-> <<>>]

NoProv == NewProvider("none")

\* The guard each generate_message begins with: "raise" when the attribute
\* read does not exist, else whether the provider holds its client.
NotInitialized(p) ==
    IF p.kind = "gemini"
    THEN IF ~p.has_model THEN "raise" ELSE "no"
    ELSE IF ~p.client THEN "yes" ELSE "no"

NoResponse == [out |-> "none", content |-> <<>>]
RaisedToCaller == [out |-> "raise", content |-> <<>>]
Response(content) == [out |-> "response", content |-> content]

\* openrouter_provider.py lines 74-127, together_provider.py lines 73-130,
\* deepinfra_provider.py lines 73-131, youcom_provider.py lines 74-150
generate_checked(reply) ==
    IF reply.kind = "raise" THEN NoResponse
    ELSE IF reply.kind = "no_choices" THEN NoResponse
    ELSE IF reply.text = <<>> THEN NoResponse
    ELSE Response(Strip(reply.text))

\* anthropic_provider.py lines 65-113, groq_provider.py lines 70-119,
\* mistral_provider.py lines 90-135, gemini_provider.py lines 79-130
generate_unchecked(reply) ==
    IF reply.kind = "raise" THEN NoResponse
    ELSE IF reply.kind = "no_choices" THEN Response(<<>>)
    ELSE Response(reply.text)

\* generate_message of the provider p when the backend does reply
generate_message(p, reply) ==
    IF NotInitialized(p) = "raise" THEN RaisedToCaller
    ELSE IF NotInitialized(p) = "yes" THEN NoResponse
    ELSE IF p.kind \in {"openrouter", "together", "deepinfra", "youcom"}
    THEN generate_checked(reply)
    ELSE generate_unchecked(reply)

\* initialize(): validate_config() fails, the client constructor raises, or
\* the client is stored and true is returned
InitializeOutcomes == {"invalid", "raise", "ok"}

Initialize(outcome) ==
    /\ prov.kind # "none"
    /\ prov' = [prov EXCEPT !.op = "initialize",
                            !.initialized = IF outcome = "ok" THEN "true" ELSE "false",
                            !.client = IF outcome = "ok" /\ prov.kind # "gemini"
                                       THEN TRUE ELSE prov.client,
                            !.has_model = IF outcome = "ok" /\ prov.kind = "gemini"
                                          THEN TRUE ELSE prov.has_model]
    /\ UNCHANGED <<orchVars, registryVars, managerVars, integrationVars>>

GenerateMessage(reply) ==
    /\ prov.kind # "none"
    /\ LET r == generate_message(prov, reply)
       IN  prov' = [prov EXCEPT !.op = "generate", !.reply = reply,
                                !.out = r.out, !.content = r.content]
    /\ UNCHANGED <<orchVars, registryVars, managerVars, integrationVars>>

----------------------------------------------------------------------------
(* app.py: get_ai_message() run by several request threads, step by step.   *)
(* A step is at most one read or one write of a store file; nothing in      *)
(* app.py orders the steps of different requests.                           *)

\* How many requests each thread makes.
MaxRequests == 2

\* request[t]: the call of get_ai_message() thread t is running.
\*   pc        idle, load_recent (line 313 next), providers (line 331 next),
\*             cache_read and cache_write (cache.add_message, lines 141-143),
\*             track_read and track_write (recent_tracker.add_message, lines
\*             179-181), done (returned)
\*   cached, recent   the lists loaded at lines 312-313, while they are used
\*   message   the new message being added to the cache
\*   toLast    the message to record as recently served
\*   messages  the list add_message loaded and has not yet saved
\*   stale     the cache file was written by another request between this
\*             request's load and save in cache.add_message
\*   served    the requests the thread has finished
NoRequest == [pc |-> "idle", cached |-> <<>>, recent |-> <<>>, path |-> "init",
              ret |-> <<>>, message |-> <<>>, toLast |-> None, messages |-> <<>>,
              stale |-> FALSE, served |-> 0]

NoRequests == [t \in Threads |-> NoRequest]

\* What the provider answers to a thread's request: nothing, or a message.
\* Provider p1 words its message anew for every request (B for t1, AB for
\* t2); provider p2 gives the same message to every request.
RepliesTo(t) ==
    {[kind |-> "none", content |-> <<>>],
     [kind |-> "response",
      content |-> IF providers = <<"p2">> \/ t = "t1" THEN B ELSE AB]}

\* line 312
ReqLoadCache(t) ==
    /\ request[t].pc = "idle"
    /\ request[t].served < MaxRequests
    /\ request' = [request EXCEPT
                      ![t] = [NoRequest EXCEPT !.pc = "load_recent",
                                               !.cached = MessageCache_load(cacheFile),
                                               !.served = request[t].served]]
    /\ UNCHANGED <<cacheFile, lastFile, providers, fuzzy_threshold, cache_probability, call>>
    /\ UNCHANGED <<registryVars, managerVars, integrationVars, providerVars>>

\* lines 313-328: the load of the recent messages, the draw, and the choice
\* among the cached messages when the draw is below the cache probability
ReqLoadRecent(t) ==
    /\ request[t].pc = "load_recent"
    /\ LET cached_messages == request[t].cached
           recent_messages == RecentMessagesTracker_load(lastFile)
           available == Available(cached_messages, recent_messages)
       IN  \E below \in {draw < cache_probability : draw \in RandBelow100} :
              IF cached_messages # <<>> /\ below
              THEN \E k \in 0..(Len(available) - 1) :
                      request' = [request EXCEPT
                                     ![t].pc = "track_read",
                                     ![t].path = "cache",
                                     ![t].ret = available[k + 1],
                                     ![t].toLast = Some(available[k + 1])]
              ELSE request' = [request EXCEPT ![t].pc = "providers",
                                              ![t].recent = recent_messages]
    /\ UNCHANGED <<cacheFile, lastFile, providers, fuzzy_threshold, cache_probability, call>>
    /\ UNCHANGED <<registryVars, managerVars, integrationVars, providerVars>>

\* lines 330-354 up to the first store access
ReqProviders(t) ==
    /\ request[t].pc = "providers"
    /\ \E reply \in RepliesTo(t),
          js \in [1..Len(providers) -> 0..(Len(providers) - 1)],
          k \in 0..Max(Len(request[t].cached) - 1, 0) :
          LET r == get_message(providers, js, [p \in Range(providers) |-> reply],
                               request[t].cached, fuzzy_threshold)
              after == AfterProviders(r.msg, request[t].cached, k)
          IN  request' = [request EXCEPT
                             ![t].pc = IF after.toCache.ok THEN "cache_read"
                                       ELSE IF after.toLast.ok THEN "track_read"
                                       ELSE "done",
                             ![t].recent = <<>>,
                             ![t].path = after.path,
                             ![t].ret = after.ret,
                             ![t].message = after.toCache.val,
                             ![t].toLast = after.toLast]
    /\ UNCHANGED <<cacheFile, lastFile, providers, fuzzy_threshold, cache_probability, call>>
    /\ UNCHANGED <<registryVars, managerVars, integrationVars, providerVars>>

\* line 141: messages = self.load()
ReqCacheRead(t) ==
    /\ request[t].pc = "cache_read"
    /\ request' = [request EXCEPT ![t].pc = "cache_write",
                                  ![t].messages = MessageCache_load(cacheFile)]
    /\ UNCHANGED <<cacheFile, lastFile, providers, fuzzy_threshold, cache_probability, call>>
    /\ UNCHANGED <<registryVars, managerVars, integrationVars, providerVars>>

\* lines 142-143: messages.append(message); self.save(messages)
ReqCacheWrite(t) ==
    /\ request[t].pc = "cache_write"
    /\ cacheFile' = Written(MessageCache_save(Append(request[t].messages,
                                                     request[t].message)))
    /\ request' = [request EXCEPT
                      ![t].pc = "track_read",
                      ![t].messages = <<>>,
                      ![t].stale = (MessageCache_load(cacheFile) # request[t].messages)]
    /\ UNCHANGED <<lastFile, providers, fuzzy_threshold, cache_probability, call>>
    /\ UNCHANGED <<registryVars, managerVars, integrationVars, providerVars>>

\* line 179: messages = self.load()
ReqTrackRead(t) ==
    /\ request[t].pc = "track_read"
    /\ request' = [request EXCEPT ![t].pc = "track_write",
                                  ![t].messages = RecentMessagesTracker_load(lastFile)]
    /\ UNCHANGED <<cacheFile, lastFile, providers, fuzzy_threshold, cache_probability, call>>
    /\ UNCHANGED <<registryVars, managerVars, integrationVars, providerVars>>

\* lines 180-181: messages.append(message); self.save(messages); then the
\* return of get_ai_message
ReqTrackWrite(t) ==
    /\ request[t].pc = "track_write"
    /\ lastFile' = Written(RecentMessagesTracker_save(Append(request[t].messages,
                                                             request[t].toLast.val)))
    /\ request' = [request EXCEPT ![t].pc = "done", ![t].messages = <<>>]
    /\ UNCHANGED <<cacheFile, providers, fuzzy_threshold, cache_probability, call>>
    /\ UNCHANGED <<registryVars, managerVars, integrationVars, providerVars>>

\* The response is sent; the thread is free for its next request.
ReqReturn(t) ==
    /\ request[t].pc = "done"
    /\ request' = [request EXCEPT
                      ![t] = [NoRequest EXCEPT !.served = request[t].served + 1]]
    /\ UNCHANGED <<cacheFile, lastFile, providers, fuzzy_threshold, cache_probability, call>>
    /\ UNCHANGED <<registryVars, managerVars, integrationVars, providerVars>>

----------------------------------------------------------------------------
(* Specifications *)

\* The store files at startup: absent, or left by an earlier run.
InitialCacheFiles == {Absent, Written(<<A, B, AB>>)}
InitialLastFiles == {Absent, Written(<<A>>)}

OrchInit ==
    /\ cacheFile \in InitialCacheFiles
    /\ lastFile \in InitialLastFiles
    /\ providers \in {<<>>, <<"p1">>, <<"p1", "p2">>}
    /\ fuzzy_threshold \in Thresholds
    /\ cache_probability \in Probabilities
    /\ call = NoCall
    /\ request = NoRequests

\* the pipeline at rest, in its default configuration
OrchQuiet ==
    /\ cacheFile = Absent
    /\ lastFile = Absent
    /\ providers = <<>>
    /\ fuzzy_threshold = 85
    /\ cache_probability = 60
    /\ call = NoCall
    /\ request = NoRequests

\* no provider map built yet
IntegrationQuiet ==
    /\ integration = NoIntegration
    /\ client_providers = <<>>
    /\ integOp = NoIntegOp

\* no built-in provider under observation
ProviderQuiet == prov = NoProv

\* the registry after PluginRegistry.__init__
RegistryInit ==
    /\ plugins = EmptyDict
    /\ regOp = NoRegOp
    /\ CallersQuiet

\* the configuration after PluginManager.__init__ found no file
ConfigQuiet ==
    /\ enabled_plugins = <<>>
    /\ configFile = save_config(NoConfigFile, DefaultConfig)
    /\ mgrOp = NoMgrOp
    /\ denied = {}

\* the manager after PluginManager.__init__, with no operation running
ManagerQuiet ==
    /\ loaded_modules = {}
    /\ disabled_plugins = <<>>
    /\ units = [n \in PluginNames |-> "absent"]
    /\ thr = [t \in Threads |-> Idle]
    /\ obs = NoObs
    /\ ConfigQuiet

\* Spec: get_ai_message() calls, one at a time.
Init == OrchInit /\ RegistryInit /\ ManagerQuiet /\ IntegrationQuiet /\ ProviderQuiet

Next ==
    \/ get_ai_message
    \/ Forget

Spec == Init /\ [][Next]_vars

\* SpecRegistry: calls on one PluginRegistry, one at a time.
InitRegistry == OrchQuiet /\ RegistryInit /\ ManagerQuiet /\ IntegrationQuiet /\ ProviderQuiet

NextRegistry ==
    \/ \E name \in PluginNames, plugin \in PluginObjects : Register(name, plugin)
    \/ \E name \in PluginNames : Unregister(name)
    \/ \E name \in PluginNames : GetPlugin(name)
    \/ Clear

SpecRegistry == InitRegistry /\ [][NextRegistry]_vars

\* SpecThreads: two threads calling register_plugin, unregister_plugin,
\* get_plugin and get_all_plugins on one PluginRegistry, their steps
\* interleaved in any order, and changing the maps get_all_plugins gave them.
InitThreads == OrchQuiet /\ RegistryInit /\ ManagerQuiet /\ IntegrationQuiet /\ ProviderQuiet

\* Both threads register, unregister and look up; t1 also takes snapshots.
OpsOf(t) == IF t = "t1" THEN RegistryOps ELSE RegistryOps \ {"get_all_plugins"}

\* get_all_plugins takes no name.
NamesOf(op) == IF op = "get_all_plugins" THEN {"x"} ELSE PluginNames

RegistryStep(t) ==
    \/ \E op \in OpsOf(t) : \E name \in NamesOf(op) : RegCall(t, op, name)
    \/ RegAcquire(t)
    \/ RegTest(t)
    \/ RegStore(t)
    \/ RegDelete(t)
    \/ RegRead(t)
    \/ RegCopy(t)
    \/ RegRelease(t)
    \/ RegReturn(t)
    \/ \E name \in PluginNames : MutateView(t, name)

NextThreads ==
    \/ RegistryStep("t1")
    \/ RegistryStep("t2")

SpecThreads == InitThreads /\ [][NextThreads]_vars

\* SpecValidate: validate_plugin called on every kind of descriptor.
InitValidate == OrchQuiet /\ RegistryInit /\ ManagerQuiet /\ IntegrationQuiet /\ ProviderQuiet

NextValidate == \E plugin \in Descriptors : ValidatePlugin(plugin)

SpecValidate == InitValidate /\ [][NextValidate]_vars

\* SpecRequests: two request threads, each running get_ai_message() up to
\* MaxRequests times, their steps interleaved in any order.
InitRequests ==
    /\ cacheFile \in {Absent, Written(<<A>>)}
    /\ lastFile = Absent
    /\ providers = <<"p1">>
    /\ fuzzy_threshold = 85
    /\ cache_probability = 60
    /\ call = NoCall
    /\ request = NoRequests
    /\ RegistryInit
    /\ ManagerQuiet
    /\ IntegrationQuiet
    /\ ProviderQuiet

RequestStep(t) ==
    \/ ReqLoadCache(t)
    \/ ReqLoadRecent(t)
    \/ ReqProviders(t)
    \/ ReqCacheRead(t)
    \/ ReqCacheWrite(t)
    \/ ReqTrackRead(t)
    \/ ReqTrackWrite(t)
    \/ ReqReturn(t)

NextRequests ==
    \/ RequestStep("t1")
    \/ RequestStep("t2")

SpecRequests == InitRequests /\ [][NextRequests]_vars

\* SpecOverlap: two request threads as in SpecRequests, with a provider that
\* gives both the same content.
InitOverlap ==
    /\ cacheFile \in {Absent, Written(<<A>>)}
    /\ lastFile = Absent
    /\ providers = <<"p2">>
    /\ fuzzy_threshold = 85
    /\ cache_probability = 60
    /\ call = NoCall
    /\ request = NoRequests
    /\ RegistryInit
    /\ ManagerQuiet
    /\ IntegrationQuiet
    /\ ProviderQuiet

SpecOverlap == InitOverlap /\ [][NextRequests]_vars

\* SpecEachRequest: one request thread running get_ai_message() step by step
\* from every initial store and configuration of Spec.  The thread runs no
\* blocking call but the provider calls, which return or raise, so the
\* scheduler lets it take its next step: weak fairness on its steps.
NextEachRequest == RequestStep("t1")

SpecEachRequest == Init /\ [][NextEachRequest]_vars /\ WF_vars(NextEachRequest)

\* SpecShuffle: the shuffle of get_message on every list of up to three
\* providers, with every result of the draws.
ShuffledNames == {"p1", "p2", "p3"}

InitShuffle ==
    /\ cacheFile = Absent
    /\ lastFile = Absent
    /\ providers \in UNION {Orderings(S) : S \in SUBSET ShuffledNames}
    /\ fuzzy_threshold = 85
    /\ cache_probability = 60
    /\ call = NoCall
    /\ request = NoRequests
    /\ RegistryInit
    /\ ManagerQuiet
    /\ IntegrationQuiet
    /\ ProviderQuiet

NextShuffle ==
    \/ ShuffleProviders
    \/ Forget

SpecShuffle == InitShuffle /\ [][NextShuffle]_vars

\* SpecStorage: get_ai_message() calls, one at a time, starting from store
\* files that may be corrupt.
InitStorage ==
    /\ cacheFile \in {Absent, Written(<<A>>)} \cup {Corrupt(form) : form \in CorruptForms}
    /\ lastFile \in {Absent, Written(<<A>>)} \cup {Corrupt(form) : form \in CorruptForms}
    /\ providers = <<"p1">>
    /\ fuzzy_threshold = 60
    /\ cache_probability = 60
    /\ call = NoCall
    /\ request = NoRequests
    /\ RegistryInit
    /\ ManagerQuiet
    /\ IntegrationQuiet
    /\ ProviderQuiet

SpecStorage == InitStorage /\ [][Next]_vars

\* SpecManager: one thread calling reload_plugin, load_plugin and
\* unload_plugin on a PluginManager while an observer reads its registry.
InitManager ==
    /\ OrchQuiet
    /\ plugins \in {EmptyDict, [n \in {"x"} |-> "d0"], [n \in PluginNames |-> "d0"]}
    /\ regOp = NoRegOp
    /\ CallersQuiet
    /\ loaded_modules = DOMAIN plugins
    /\ disabled_plugins \in {<<>>, <<"y">>}
    /\ units \in {[n \in PluginNames |-> "ok"],
                  [n \in PluginNames |-> IF n = "x" THEN "ok" ELSE "broken"],
                  [n \in PluginNames |-> IF n = "x" THEN "absent" ELSE "ok"]}
    /\ thr = [t \in Threads |-> Idle]
    /\ obs = NoObs
    /\ enabled_plugins = <<>>
    /\ configFile = save_config(NoConfigFile, [enabled_plugins |-> <<>>,
                                               disabled_plugins |-> disabled_plugins])
    /\ mgrOp = NoMgrOp
    /\ denied = {}
    /\ IntegrationQuiet
    /\ ProviderQuiet

ManagerStep(t) ==
    \/ \E name \in PluginNames : StartReload(t, name)
    \/ \E name \in PluginNames : StartUnload(t, name)
    \/ \E name \in PluginNames : StartLoad(t, name)
    \/ UnloadCheck(t)
    \/ UnloadUnregister(t)
    \/ UnloadModules(t)
    \/ LoadDisabled(t)
    \/ LoadCheck(t)
    \/ LoadGet(t)
    \/ LoadFile(t)
    \/ LoadRegister(t)
    \/ Return(t)

NextManager ==
    \/ ManagerStep("t1")
    \/ \E op \in ObserverOps, name \in PluginNames : Observe(op, name)

SpecManager == InitManager /\ [][NextManager]_vars

\* SpecLoaders: two threads calling load_plugin on one PluginManager, their
\* steps interleaved in any order.
LoaderStep(t) ==
    \/ \E name \in PluginNames : StartLoad(t, name)
    \/ LoadDisabled(t)
    \/ LoadCheck(t)
    \/ LoadGet(t)
    \/ LoadFile(t)
    \/ LoadRegister(t)
    \/ Return(t)

NextLoaders ==
    \/ LoaderStep("t1")
    \/ LoaderStep("t2")

SpecLoaders == InitManager /\ [][NextLoaders]_vars

\* SpecLifecycle: whole PluginManager operations, one at a time, on a plugin
\* directory holding any two units, and restarts of the process.
InitLifecycle ==
    /\ OrchQuiet
    /\ RegistryInit
    /\ loaded_modules = {}
    /\ disabled_plugins = <<>>
    /\ units \in [PluginNames -> UnitKinds]
    /\ thr = [t \in Threads |-> Idle]
    /\ obs = NoObs
    /\ ConfigQuiet
    /\ IntegrationQuiet
    /\ ProviderQuiet

NextLifecycle ==
    \/ \E name \in PluginNames : LoadPlugin(name)
    \/ \E name \in PluginNames : UnloadPlugin(name)
    \/ LoadAllPlugins
    \/ \E name \in PluginNames : EnablePlugin(name)
    \/ \E name \in PluginNames : DisablePlugin(name)
    \/ Restart

SpecLifecycle == InitLifecycle /\ [][NextLifecycle]_vars

\* SpecIntegration: a PluginAwareAIClient constructed on one of the
\* configurations, then calls on it, one at a time.
InitIntegration ==
    /\ cacheFile = Absent
    /\ lastFile = Absent
    /\ fuzzy_threshold = 85
    /\ cache_probability = 60
    /\ call = NoCall
    /\ request = NoRequests
    /\ plugins = [n \in BuiltinPlugins |-> "d0"]
    /\ regOp = NoRegOp
    /\ CallersQuiet
    /\ ManagerQuiet
    /\ ProviderQuiet
    /\ \E config \in ClientConfigs, env \in SUBSET {"openrouter", "together"} :
          LET dict == initialize_providers(config, plugins, env, <<>>)
          IN  /\ integration = [config |-> config, env |-> env, providers |-> dict,
                                startup |-> [env |-> env, keys |-> Keys(dict)]]
              /\ client_providers = get_providers(dict)
              /\ providers = Keys(get_providers(dict))
    /\ integOp = NoIntegOp

NextIntegration ==
    \/ ReloadProviders
    \/ \E plugin_name \in CustomPlugins, config \in CustomConfigs :
          AddCustomProvider(plugin_name, config)
    \/ HealthCheckAll
    \/ \E plugin_name \in {"openrouter", "together"} : EnvChange(plugin_name)

SpecIntegration == InitIntegration /\ [][NextIntegration]_vars

\* SpecStartup: a PluginIntegration whose built-in plugins are disabled and
\* enabled through its PluginManager, and the process starting again on the
\* plugin configuration file these calls wrote.
Switchable == {"openrouter", "together"}

NextStartup ==
    \/ \E name \in Switchable : DisablePlugin(name)
    \/ \E name \in Switchable : EnablePlugin(name)
    \/ ConstructIntegration
    \/ ReloadProviders

SpecStartup == InitIntegration /\ [][NextStartup]_vars

\* SpecProvider: one built-in provider instance, initialized and asked for
\* messages in any order.
InitProvider ==
    /\ OrchQuiet
    /\ RegistryInit
    /\ ManagerQuiet
    /\ IntegrationQuiet
    /\ prov \in {NewProvider(kind) : kind \in BuiltinKinds}

NextProvider ==
    \/ \E outcome \in InitializeOutcomes : Initialize(outcome)
    \/ \E reply \in BackendReplies : GenerateMessage(reply)

SpecProvider == InitProvider /\ [][NextProvider]_vars

----------------------------------------------------------------------------
(* Claims about the acquisition pipeline, checked under Spec *)

Returned == call # NoCall

\* The reply of the i-th provider called is a response with non-empty content.
HasContent(i) ==
    /\ call.log[i].reply.kind = "response"
    /\ call.log[i].reply.content # <<>>

\* C1: after any sequence of get_ai_message() calls the persisted MessageStore
\* has at most max_cache_size entries and the persisted RecencyTracker at most
\* last_limit entries.
C1_StoresBounded ==
    /\ Len(cacheFile.data) <= MaxCacheSize
    /\ Len(lastFile.data) <= LastLimit

\* A call accepted a reply while both stores were full, so both were pruned.
C1_Witness ==
    /\ call.path = "generated"
    /\ Len(call.cached) = MaxCacheSize
    /\ Len(call.recent) = LastLimit
    /\ Len(cacheFile.data) = MaxCacheSize
    /\ Len(lastFile.data) = LastLimit

\* C3: if MessageStore is empty and every configured provider fails, the call
\* returns the unavailability sentinel as a value and does not raise.
C3_SentinelWhenNothingWorks ==
    (Returned /\ call.cached = <<>> /\ call.down)
        => (~call.raised /\ call.path = "sentinel" /\ call.ret = ErrorMsg)

\* Two providers were asked: one raised, the other returned empty content.
C3_Witness ==
    /\ call.cached = <<>>
    /\ call.down
    /\ Len(call.log) = 2
    /\ \E i \in 1..2 : call.log[i].reply.kind = "raise"
    /\ \E i \in 1..2 : call.log[i].reply = [kind |-> "response", content |-> <<>>]
    /\ call.ret = ErrorMsg

\* C4 as claimed: if a cached message exists and every provider fails, the
\* message returned is a cached message followed by the archive suffix (stated
\* for the configurations that have a provider to fail).
C4_FallbackWheneverProvidersFail ==
    (Returned /\ call.cached # <<>> /\ call.down /\ providers # <<>>)
        => \E i \in 1..Len(call.cached) : call.ret = call.cached[i] \o ArchiveSuffix

\* C4 as amended: the same, for the calls in which the cache path is not taken.
C4_FallbackWhenGenerationFails ==
    (Returned /\ call.cached # <<>> /\ call.down /\ call.path # "cache")
        => \E i \in 1..Len(call.cached) : call.ret = call.cached[i] \o ArchiveSuffix

\* Every provider was asked and failed, and a cached message came back marked.
C4_Witness ==
    /\ call.cached = <<A, B, AB>>
    /\ call.down
    /\ Len(call.log) = 2
    /\ call.ret = B \o ArchiveSuffix

C6_IdenticalRejected ==
    (Returned /\ fuzzy_threshold = 100)
        => \A i \in 1..Len(call.log) :
            (HasContent(i) /\ call.log[i].reply.content \in Range(call.cached))
                => /\ ~(call.path = "generated" /\ i = Len(call.log))
                   /\ call.path = "generated" => call.ret # call.log[i].reply.content
                   /\ i < Len(call.order)
                        => /\ Len(call.log) > i
                           /\ call.log[i + 1].provider = call.order[i + 1]
                   /\ i = Len(call.order) => call.path = "fallback"
                   /\ cacheFile \in {call.files[1],
                                     Written(MessageCache_save(Append(call.cached, call.ret)))}
                   /\ call.path # "generated" => cacheFile = call.files[1]

\* The first provider repeated the second cached entry and the next provider's
\* reply was accepted.
C6_Witness ==
    /\ fuzzy_threshold = 100
    /\ call.cached = <<A, B>>
    /\ Len(call.log) = 2
    /\ call.log[1].reply = [kind |-> "response", content |-> B]
    /\ call.path = "generated"
    /\ call.ret = AB

\* C7: when the cache path is taken and some cached message is not in
\* RecencyTracker, the call returns a cached message that is not in
\* RecencyTracker; afterwards RecencyTracker has at most last_limit entries and
\* the returned message is its last entry.
C7_CachePathAvoidsRecent ==
    (call.path = "cache" /\ Range(call.cached) \ Range(call.recent) # {})
        => /\ call.ret \in Range(call.cached) \ Range(call.recent)
           /\ Len(lastFile.data) <= LastLimit
           /\ Len(lastFile.data) > 0
           /\ lastFile.data[Len(lastFile.data)] = call.ret

\* MessageStore = [A, B, AB], RecencyTracker = [A], probability 1.0: B came back.
C7_Witness ==
    /\ cache_probability = 100
    /\ call.path = "cache"
    /\ call.cached = <<A, B, AB>>
    /\ call.recent = <<A>>
    /\ call.ret = B
    /\ lastFile = Written(<<A, B>>)

\* The case of C8: the provider tried first returned a reply similar to a cached
\* entry and the provider tried next a reply similar to none.
C8_Case ==
    /\ Returned
    /\ Len(call.log) >= 2
    /\ HasContent(1)
    /\ \E i \in 1..Len(call.cached) :
         RatioAtLeast(call.log[1].reply.content, call.cached[i], fuzzy_threshold)
    /\ HasContent(2)
    /\ \A i \in 1..Len(call.cached) :
         ~RatioAtLeast(call.log[2].reply.content, call.cached[i], fuzzy_threshold)

\* C8 as claimed: in that case the second provider's content is the result
\* and MessageStore grows by exactly one entry, that content.
C8_SecondAcceptedStoreGrows ==
    C8_Case
        => /\ call.path = "generated"
           /\ call.ret = call.log[2].reply.content
           /\ cacheFile = Written(Append(call.cached, call.ret))

\* C8 as amended: the second provider's content is the result and is appended to
\* MessageStore, which grows by one entry when it held fewer than
\* max_cache_size entries and otherwise drops its oldest entry.
C8_SecondAcceptedStoreAppends ==
    C8_Case
        => /\ call.path = "generated"
           /\ call.ret = call.log[2].reply.content
           /\ Len(call.cached) < MaxCacheSize => cacheFile = Written(Append(call.cached, call.ret))
           /\ Len(call.cached) >= MaxCacheSize
                => cacheFile = Written(Append(Tail(call.cached), call.ret))

\* Threshold 60, A cached: AB (ratio 66.7) was rejected, then B (ratio 0) accepted.
C8_Witness ==
    /\ fuzzy_threshold = 60
    /\ call.cached = <<A>>
    /\ Len(call.log) = 2
    /\ call.log[1].reply.content = AB
    /\ call.log[2].reply.content = B
    /\ call.ret = B
    /\ cacheFile = Written(<<A, B>>)

\* C9: with no provider configured and an empty MessageStore the call returns
\* the sentinel and writes neither store file.
C9_NothingConfiguredNothingWritten ==
    (Returned /\ providers = <<>> /\ call.cached = <<>>)
        => /\ call.ret = ErrorMsg
           /\ ~call.wroteCache
           /\ ~call.wroteLast
           /\ cacheFile = call.files[1]
           /\ lastFile = call.files[2]

\* No provider, no MessageStore file, a RecencyTracker file: the one stays
\* absent and the other as it was.
C9_Witness ==
    /\ providers = <<>>
    /\ Returned
    /\ call.cached = <<>>
    /\ call.recent = <<A>>
    /\ call.ret = ErrorMsg
    /\ cacheFile = Absent
    /\ lastFile = Written(<<A>>)

----------------------------------------------------------------------------
(* Claims about the registry, checked under SpecRegistry *)

\* C2: a register call on a name that is already present returns false and
\* changes nothing in the registry: after register("x", d) the call
\* register("x", d2) leaves the registry holding d.
C2_FirstRegistrationWins ==
    (regOp.op = "register" /\ regOp.name \in DOMAIN regOp.before)
        => /\ regOp.result = FALSE
           /\ plugins = regOp.before
           /\ plugins[regOp.name] = regOp.before[regOp.name]

\* "x" held d1 and register("x", d2) was called.
C2_Witness ==
    /\ regOp.op = "register"
    /\ regOp.name = "x"
    /\ regOp.plugin = "d2"
    /\ "x" \in DOMAIN regOp.before
    /\ regOp.before["x"] = "d1"
    /\ plugins["x"] = "d1"
    /\ regOp.result = FALSE

----------------------------------------------------------------------------
(* Claims about the plugin manager, checked under SpecManager *)

\* C10: while a registered plugin is being reloaded, no concurrent
\* get_plugin / is_registered / get_all_plugins call on the registry sees its
\* name as missing.
C10_ReloadAtomic == obs.reloading => obs.present

----------------------------------------------------------------------------
(* Claims about PluginManager operations, checked under SpecLifecycle *)

\* C11: load_plugin(name) on a name that is not disabled raises
\* PluginLoadError whenever the unit lacks a Provider capability, the name is
\* already registered, or the unit's metadata lacks a required field; it
\* never returns a plugin or nothing in these cases.
C11_LoadFailureRaises ==
    (/\ mgrOp.op = "load"
     /\ mgrOp.name \notin Range(disabled_plugins)
     /\ \/ LacksCapability(Unit(units[mgrOp.name]))
        \/ MalformedMetadata(Unit(units[mgrOp.name]))
        \/ mgrOp.name \in DOMAIN mgrOp.before)
        => mgrOp.result = "PluginLoadError"

\* A unit that load_all_plugins tried and that raised PluginLoadError.
FailedInBulk(n) ==
    /\ n \in Range(mgrOp.discovered) \cup Range(enabled_plugins)
    /\ n \notin Range(disabled_plugins)
    /\ n \notin DOMAIN mgrOp.before
    /\ load_plugin_from_file(Unit(units[n])) = "PluginLoadError"

\* C12: after load_all_plugins every discovered unit that is enabled and
\* loadable is registered, and every unit that failed to load is in the
\* failed list of the returned report.
C12_BulkLoadReportsFailures ==
    mgrOp.op = "load_all"
        => \A n \in PluginNames :
              /\ (/\ n \in Range(mgrOp.discovered)
                  /\ n \notin Range(disabled_plugins)
                  /\ load_plugin_from_file(Unit(units[n])) = "plugin")
                    => (n \in DOMAIN plugins /\ n \in mgrOp.loaded)
              /\ FailedInBulk(n) => n \in ReportFailed(mgrOp.loaded)

\* C13: a name that was disabled and not enabled again since is not in the
\* registry, load_plugin on it yields no plugin and load_all_plugins does not
\* return it, also after the process restarted on the same configuration file.
C13_DisabledStaysUnloaded ==
    \A x \in denied :
        /\ x \notin DOMAIN plugins
        /\ (mgrOp.op = "load" /\ mgrOp.name = x) => mgrOp.result = "none"
        /\ mgrOp.op = "load_all" => x \notin mgrOp.loaded

\* "x" is a loadable unit that was loaded, then disabled; the process
\* restarted and load_plugin("x") was called.
C13_Witness ==
    /\ "x" \in denied
    /\ units["x"] = "ok"
    /\ mgrOp.op = "load"
    /\ mgrOp.name = "x"
    /\ mgrOp.restarted
    /\ mgrOp.result = "none"
    /\ "x" \notin DOMAIN plugins

----------------------------------------------------------------------------
(* Claims about the provider map, checked under SpecIntegration *)

\* C14: health_check_all returns a dict with one boolean entry for each
\* provider of the map, true exactly when that provider's health check
\* returned true; a check that fails or raises gives false and the providers
\* after it are still checked.
C14_HealthCheckCoversAll ==
    integOp.op = "health"
        => /\ DOMAIN integOp.health = Range(Keys(client_providers))
           /\ \A name \in DOMAIN integOp.health :
                 /\ integOp.health[name] \in BOOLEAN
                 /\ integOp.health[name] = (integOp.outcome[name] = "true")

\* Two providers; the health check of the first raises, the second is healthy.
C14_Witness ==
    /\ integOp.op = "health"
    /\ Keys(client_providers) = <<"openrouter", "together">>
    /\ integOp.outcome["openrouter"] = "raise"
    /\ integOp.outcome["together"] = "true"
    /\ integOp.health["openrouter"] = FALSE
    /\ integOp.health["together"] = TRUE

\* C15: every instance in the integration's provider map and in the client's
\* provider map, which is the one the orchestrator iterates, is one whose
\* initialize() returned true.
C15_OnlyInitializedProviders ==
    /\ \A i \in 1..Len(integration.providers) : integration.providers[i].value.initialized
    /\ \A i \in 1..Len(client_providers) : client_providers[i].value.initialized
    /\ providers = Keys(client_providers)

\* The configured Together record is invalid and was discarded at startup
\* and by a reload; then add_custom_provider was refused for an instance
\* whose initialize() returned false.
C15_Witness ==
    /\ integration.config = <<ConfigOpenRouter, ConfigTogetherInvalid>>
    /\ integOp.op = "add"
    /\ integOp.prev = "reload"
    /\ integOp.result = FALSE
    /\ providers = <<"openrouter">>

\* C16: after reload_providers, with initialize() outcomes as at startup,
\* the provider map has exactly the startup keys, the client's map equals the
\* integration's, and a reload that follows a reload leaves the keys as they
\* were.
C16_ReloadRebuildsStartupMap ==
    integOp.op = "reload"
        => /\ client_providers = integration.providers
           /\ integration.env = integration.startup.env
                 => Keys(integration.providers) = integration.startup.keys
           /\ integOp.prev = "reload" => Keys(client_providers) = integOp.before

\* A provider added at runtime under the key "Custom" is gone after the
\* reload, which gives the startup keys again.
C16_Witness ==
    /\ integOp.op = "reload"
    /\ integOp.prev = "add"
    /\ "Custom" \in Range(integOp.before)
    /\ integration.env = integration.startup.env
    /\ Keys(client_providers) = <<"openrouter", "together">>
    /\ integration.startup.keys = <<"openrouter", "together">>

----------------------------------------------------------------------------
(* Claims about the built-in providers, checked under SpecProvider *)

\* C17: a generate_message call of a built-in provider that returns a
\* Response returns one whose content is non-empty.
C17_ResponseContentNonEmpty ==
    (prov.op = "generate" /\ prov.out = "response") => prov.content # <<>>

\* C18: no generate_message call of a built-in provider raises to its
\* caller, whatever the provider's state.
C18_GenerateNeverRaises ==
    prov.op = "generate" => prov.out # "raise"

----------------------------------------------------------------------------
(* Claims about the generation loop, checked under Spec *)

\* C19: in a call that reaches the providers, get_message does not raise;
\* the providers are called in the iteration order, a provider that raises,
\* returns None or returns empty content is followed by the next one, and the
\* loop ends early only with an accepted message.
C19_FailingProviderSkipped ==
    (Returned /\ call.path # "cache")
        => /\ ~call.raised
           /\ Len(call.log) <= Len(call.order)
           /\ \A i \in 1..Len(call.log) :
                 /\ call.log[i].provider = call.order[i]
                 /\ (Failed(call.log[i].reply) /\ i < Len(call.order)) => i < Len(call.log)
           /\ Len(call.log) < Len(call.order) => call.path = "generated"
           /\ call.path = "generated"
                 => (HasContent(Len(call.log)) /\ call.ret = call.log[Len(call.log)].reply.content)

\* The first provider called raises and the second gives the accepted message.
C19_Witness ==
    /\ Returned
    /\ Len(call.log) = 2
    /\ call.log[1].reply.kind = "raise"
    /\ call.path = "generated"
    /\ call.ret = call.log[2].reply.content

----------------------------------------------------------------------------
(* Claims about corrupt store files, checked under SpecStorage *)

Corrupted(file) == file.exists /\ file.form # "json"

\* C20: a call that finds the MessageStore file or the RecencyTracker file
\* corrupt does not raise and runs with that store empty.
C20_CorruptStoreReadsEmpty ==
    (Returned /\ (Corrupted(call.files[1]) \/ Corrupted(call.files[2])))
        => /\ ~call.raised
           /\ Corrupted(call.files[1]) => call.cached = <<>>
           /\ Corrupted(call.files[2]) => call.recent = <<>>

----------------------------------------------------------------------------
(* Claims about the /api/message route, checked under Spec *)

\* What get_message returns for the request: the value it returned when it was
\* called, and every value it can return on the loaded cache when the call
\* ended before line 331.
WouldReturn ==
    IF call.path = "cache"
    THEN {o.r.msg : o \in GetMessageOutcomes(call.cached)}
    ELSE {call.new_message}

C22_FailureSaysUnavailable ==
    (Returned /\ call.down)
        => /\ api_message(call).status = 200
           /\ SaysUnavailable(api_message(call).message)

----------------------------------------------------------------------------
(* Claims about concurrent calls on the registry, checked under SpecThreads *)

\* Both threads have returned from register_plugin(name, ...), each called
\* while the name was unused and while the other's call was in progress.
RegisterRace(name) ==
    /\ \A t \in Threads :
          /\ caller[t].pc = "done"
          /\ caller[t].op = "register"
          /\ caller[t].name = name
          /\ caller[t].unused
          /\ caller[t].overlap = Threads \ {t}
    /\ caller["t1"].plugin # caller["t2"].plugin

\* C23: under every interleaving each call takes effect atomically (it
\* changes the dict and returns as the method run alone does, and del never
\* raises), and of two concurrent registrations of one unused name with
\* different descriptors exactly one returns True and the registry then
\* holds that caller's descriptor.
C23_ConcurrentCallsAtomic ==
    /\ \A t \in Threads :
          caller[t].pc \in {"release", "done"}
              => (caller[t].atomic /\ caller[t].result # "KeyError")
    /\ \A name \in PluginNames :
          RegisterRace(name)
              => \E t \in Threads :
                    /\ caller[t].result = "True"
                    /\ \A u \in Threads \ {t} : caller[u].result = "False"
                    /\ name \in DOMAIN plugins
                    /\ plugins[name] = caller[t].plugin

\* t1 called register_plugin("x", d1) first, t2 got the lock first.
C23_Witness ==
    /\ RegisterRace("x")
    /\ caller["t1"].result = "False"
    /\ caller["t2"].result = "True"
    /\ plugins["x"] = "d2"

\* C25: the map get_all_plugins returned holds the items the registry had at
\* the call, changed only by what its holder did to it, whatever is
\* registered or unregistered afterwards; and a change the holder makes to
\* it does not change the registry.
C25_SnapshotIsolated ==
    /\ [](\A t \in Threads :
             caller[t].view.held => Items(caller[t].view) = caller[t].view.expected)
    /\ [][\A t \in Threads :
             (caller[t].pc = "idle" /\ caller'[t].pc = "idle"
                 /\ caller'[t].view # caller[t].view)
                 => plugins' = plugins]_vars

\* t1 took a snapshot of the empty registry and added "x" to it; t2 then
\* registered "y".
C25_Witness ==
    /\ caller["t1"].view.held
    /\ DOMAIN Items(caller["t1"].view) = {"x"}
    /\ DOMAIN plugins = {"y"}
    /\ plugins["y"] = "d2"

----------------------------------------------------------------------------
(* Claims about the registry as a map, checked under SpecRegistry *)

\* The reference map after the last call: register inserts only when the name
\* is absent, unregister removes only when it is present, clear empties.
RefAfter ==
    LET before == regOp.before
        name == regOp.name
    IN  CASE regOp.op = "register" /\ name \notin DOMAIN before ->
               [n \in DOMAIN before \cup {name} |->
                   IF n = name THEN regOp.plugin ELSE before[n]]
          [] regOp.op = "unregister" /\ name \in DOMAIN before ->
               [n \in DOMAIN before \ {name} |-> before[n]]
          [] regOp.op = "clear" -> [n \in {} |-> "d0"]
          [] OTHER -> before

\* C24: after every register, unregister or clear call the registry's
\* readers agree with the reference map, register and unregister return
\* True exactly when they changed it, and get returns the reference's entry.
C24_RegistryRefinesMap ==
    /\ \A n \in PluginNames :
          /\ get_plugin(plugins, n).ok = (n \in DOMAIN RefAfter)
          /\ n \in DOMAIN RefAfter => get_plugin(plugins, n).val = RefAfter[n]
          /\ is_registered(plugins, n) = (n \in DOMAIN RefAfter)
    /\ get_plugin_names(plugins) = DOMAIN RefAfter
    /\ count(plugins) = Cardinality(DOMAIN RefAfter)
    /\ regOp.op \in {"register", "unregister"}
          => regOp.result = (RefAfter # regOp.before)
    /\ regOp.op = "get"
          => /\ regOp.result = (regOp.name \in DOMAIN RefAfter)
             /\ regOp.result => regOp.plugin = RefAfter[regOp.name]

\* unregister("x") removed d1 and left "y".
C24_Witness ==
    /\ regOp.op = "unregister"
    /\ regOp.name = "x"
    /\ regOp.result
    /\ DOMAIN regOp.before = {"x", "y"}
    /\ regOp.before["x"] = "d1"
    /\ get_plugin_names(plugins) = {"y"}
    /\ ~get_plugin(plugins, "x").ok

----------------------------------------------------------------------------
(* Claims about PluginRegistry.validate_plugin, checked under SpecValidate *)

\* C26: validate_plugin returns True exactly when the descriptor has a
\* provider class exposing provider_name, supported_models, initialize,
\* generate_message and health_check and its metadata holds name, version,
\* author and description; otherwise it returns False; it never raises.
C26_ValidateChecksClassAndMetadata ==
    regOp.op = "validate"
        => /\ ~regOp.raised
           /\ regOp.result =
                 (/\ regOp.descriptor.kind = "plugin"
                  /\ ~regOp.descriptor.provider_class.none
                  /\ BaseAIProviderAttributes \subseteq regOp.descriptor.provider_class.attrs
                  /\ MetadataFields \subseteq regOp.descriptor.metadata)

\* A complete provider class with metadata lacking "author" was rejected.
C26_Witness ==
    /\ regOp.op = "validate"
    /\ regOp.descriptor.kind = "plugin"
    /\ regOp.descriptor.provider_class = Class(BaseAIProviderAttributes)
    /\ regOp.descriptor.metadata = MetadataFields \ {"author"}
    /\ ~regOp.result
    /\ ~regOp.raised

----------------------------------------------------------------------------
(* Claims about the configured records, checked under SpecIntegration *)

\* C27 as stated: when the provider map has been built (at startup or by a
\* reload), every record of the configuration is mapped to a registered
\* plugin key, and a record whose key is not in the map is one whose
\* provider's initialize() returned false.
C27_EveryRecordInstantiated ==
    integOp.op \in {"none", "reload"}
        => \A i \in 1..Len(integration.config) :
              LET record == integration.config[i]
                  key == Lower(record.name)
                  plugin_name == map_legacy_to_plugin(key)
              IN  /\ plugin_name.ok
                  /\ is_registered(plugins, plugin_name.val)
                  /\ key \notin Range(Keys(integration.providers))
                        => ~initialize(plugin_name.val, record, integration.env)

----------------------------------------------------------------------------
(* Claims about concurrent requests, checked under SpecRequests *)

\* Both threads have finished a call that accepted a new message, and the
\* two messages differ.
BothAccepted ==
    /\ \A t \in Threads : request[t].pc = "done" /\ request[t].path = "generated"
    /\ request["t1"].message # request["t2"].message

\* C28: two concurrent calls that each accepted a different new message can
\* leave MessageStore with only one of the two.  After two such calls the
\* store always holds at least one of the two messages, and it holds both
\* when neither call saved over a file that had changed since it loaded it.
C28_UpdateLostOnlyWhenStale ==
    BothAccepted
        => LET stored == Range(MessageCache_load(cacheFile))
           IN  /\ \E t \in Threads : request[t].message \in stored
               /\ (\A t \in Threads : ~request[t].stale)
                     => \A t \in Threads : request[t].message \in stored

\* The lost update: both first calls accepted, t1's message is not in the
\* store, t2's is.
C28_Witness ==
    /\ BothAccepted
    /\ \A t \in Threads : request[t].served = 0
    /\ request["t1"].message = B
    /\ request["t2"].message = AB
    /\ request["t2"].stale
    /\ MessageCache_load(cacheFile) = <<A, AB>>

----------------------------------------------------------------------------
(* Claims about the order of the provider calls, checked under Spec *)

\* How many times generate_message was called on a provider during the call.
Called(p) == Cardinality({i \in 1..Len(call.log) : call.log[i].provider = p})

\* C29: in a call that reaches the providers they are asked one after the
\* other: each at most once, none after the first whose reply is accepted,
\* and each exactly once when no reply is accepted.
C29_ProvidersAskedInSequence ==
    (Returned /\ call.path \notin {"cache", "raised"})
        => /\ \A i \in 1..Len(call.log) : call.log[i].provider \in Range(providers)
           /\ \A p \in Range(providers) : Called(p) <= 1
           /\ \A i \in 1..(Len(call.log) - 1) :
                 TryProvider(call.log[i].reply, call.cached, fuzzy_threshold) # "accept"
           /\ call.new_message.ok
                 => /\ call.log # <<>>
                    /\ TryProvider(call.log[Len(call.log)].reply, call.cached,
                                   fuzzy_threshold) = "accept"
                    /\ call.new_message.val = call.log[Len(call.log)].reply.content
           /\ ~call.new_message.ok
                 => \A p \in Range(providers) : Called(p) = 1

\* Two providers; the reply of the one asked first was accepted and the other
\* was not asked.
C29_Witness ==
    /\ Returned
    /\ Len(providers) = 2
    /\ call.path = "generated"
    /\ Len(call.log) = 1
    /\ \E p \in Range(providers) : Called(p) = 0

----------------------------------------------------------------------------
(* Claims about the shuffle, checked under SpecShuffle *)

\* All the equally likely results of the draws for the providers configured.
AllDraws == [1..Len(providers) -> 0..(Len(providers) - 1)]

\* n!
RECURSIVE Factorial(_)
Factorial(n) == IF n <= 1 THEN 1 ELSE n * Factorial(n - 1)

\* Among all the draws, how many give this order, and how many put this
\* provider first.
TimesProduced(order) == Cardinality({js \in AllDraws : Shuffle(providers, js) = order})
TimesFirst(p) == Cardinality({js \in AllDraws : Shuffle(providers, js)[1] = p})

\* C30 as stated: over all equally likely results of the draws each of the
\* n! orders is produced equally often, so the order a shuffle produced is
\* produced by 1/n! of the draws and the provider it tries first is first in
\* 1/n of them.
C30_ShuffleIsFair ==
    call.path = "shuffle"
        => /\ TimesProduced(call.order) * Factorial(Len(providers))
                 = Cardinality(AllDraws)
           /\ TimesFirst(call.order[1]) * Len(providers) = Cardinality(AllDraws)

----------------------------------------------------------------------------
(* Claims about the paths of get_ai_message, checked under Spec *)

\* C31: a call that finds MessageStore non-empty and draws below the cache
\* probability takes the cache path: it returns one of the cached messages
\* and asks no provider.
C31_CachePathAsksNoProvider ==
    (Returned /\ call.cached # <<>> /\ call.below)
        => /\ call.path = "cache"
           /\ call.log = <<>>
           /\ ~call.new_message.ok
           /\ call.ret \in Range(call.cached)

\* The cache path was taken although a configured provider would have
\* answered.
C31_Witness ==
    /\ Returned
    /\ call.below
    /\ call.path = "cache"
    /\ providers # <<>>
    /\ ~call.down
    /\ call.ret \in Range(call.cached)

----------------------------------------------------------------------------
(* Claims about the end of a request, checked under SpecEachRequest *)

\* The request of t1 has returned from get_ai_message.
Done == request["t1"].pc = "done"

\* What a finished request returned, by the path it took.
OutcomeOfRequest ==
    LET r == request["t1"]
        stored == Range(MessageCache_load(cacheFile))
    IN  /\ r.path \in {"cache", "generated", "fallback", "sentinel"}
        /\ r.path = "cache"
              => r.ret \in Range(r.cached) /\ r.message = <<>>
        /\ r.path = "generated"
              => /\ r.ret = r.message /\ r.ret # <<>>
                 /\ r.ret \in stored
                 /\ r.ret \notin Range(r.cached)
        /\ r.path = "fallback"
              => /\ \E m \in Range(r.cached) : r.ret = m \o ArchiveSuffix
                 /\ r.message = <<>>
        /\ r.path = "sentinel" => r.ret = ErrorMsg
        /\ r.ret = ErrorMsg <=> (r.path = "sentinel")
        /\ r.path = "sentinel" => r.cached = <<>>
        /\ (\E m \in Range(r.cached) : r.ret = m \o ArchiveSuffix) => r.message = <<>>

\* C32: every get_ai_message() call that starts also returns, and what it
\* returns is a cached message as stored, the content of the reply it
\* accepted, a cached message followed by the archive suffix, or the
\* sentinel; the sentinel only if the store was empty when loaded, the
\* suffix only if no reply was accepted.
C32_EveryCallReturnsOneOutcome ==
    /\ [](Done => OutcomeOfRequest)
    /\ (request["t1"].pc # "idle") ~> Done

\* A second call has returned by the fallback path.
C32_Witness ==
    /\ Done
    /\ request["t1"].served = 1
    /\ request["t1"].path = "fallback"
    /\ request["t1"].ret = B \o ArchiveSuffix
    /\ providers # <<>>

----------------------------------------------------------------------------
(* Claims about the writes of get_ai_message, checked under Spec *)

\* C33: a call that ends in the cache path, in the fallback path or with the
\* sentinel leaves the MessageStore file as it was, so a changed file means
\* an accepted reply; and the fallback path appends to RecencyTracker the
\* cached message it serves, without the archive suffix.
C33_StoreWrittenOnlyOnAccept ==
    Returned =>
        /\ call.path \in {"cache", "fallback", "sentinel"}
              => cacheFile = call.files[1] /\ ~call.wroteCache
        /\ cacheFile # call.files[1] => call.path = "generated" /\ call.new_message.ok
        /\ call.path = "fallback"
              => \E k \in 1..Len(call.cached) :
                    /\ call.ret = call.cached[k] \o ArchiveSuffix
                    /\ lastFile = RecentMessagesTracker_add_message(call.files[2],
                                                                    call.cached[k])
                    /\ call.cached[k]
                          = RecentMessagesTracker_load(lastFile)[Len(RecentMessagesTracker_load(lastFile))]

\* A fallback with providers configured: the store file is untouched and the
\* tracker ends with the unmarked message.
C33_Witness ==
    /\ Returned
    /\ call.path = "fallback"
    /\ providers # <<>>
    /\ cacheFile = call.files[1]
    /\ call.ret = AB \o ArchiveSuffix
    /\ lastFile = Written(<<A, AB>>)

----------------------------------------------------------------------------
(* Claims about the content of the stores, checked under Spec *)

\* No two entries of the stored list are similar at the configured threshold.
PairwiseDissimilar(file) ==
    LET messages == MessageCache_load(file)
    IN  \A i, j \in 1..Len(messages) :
           i # j => ~RatioAtLeast(messages[i], messages[j], fuzzy_threshold)

\* No string is stored twice.
NoDuplicates(file) ==
    LET messages == MessageCache_load(file)
    IN  \A i, j \in 1..Len(messages) : i # j => messages[i] # messages[j]

\* C34: with calls running one at a time, a MessageStore in which no two
\* entries have a similarity >= threshold is still such a store after the
\* next call, and so after any sequence of calls; such a store holds no
\* string twice.
C34_StoreStaysDissimilar ==
    [][PairwiseDissimilar(cacheFile)
          => PairwiseDissimilar(cacheFile') /\ NoDuplicates(cacheFile')]_vars

\* A call in which a reply equal to a stored message was refused and the
\* next provider's reply was accepted into a store that stays dissimilar.
C34_Witness ==
    /\ Returned
    /\ call.path = "generated"
    /\ Len(call.log) = 2
    /\ call.log[1].reply.content \in Range(call.cached)
    /\ PairwiseDissimilar(call.files[1])
    /\ PairwiseDissimilar(cacheFile)
    /\ Len(MessageCache_load(cacheFile)) = MaxCacheSize
    /\ call.ret = MessageCache_load(cacheFile)[MaxCacheSize]

----------------------------------------------------------------------------
(* Claims about overlapping requests with equal replies, checked under
   SpecOverlap *)

\* How many entries of the stored list equal the message.
Copies(file, message) ==
    LET messages == MessageCache_load(file)
    IN  Cardinality({i \in 1..Len(messages) : messages[i] = message})

\* C35: when two overlapping get_ai_message() calls get the same content from
\* their providers, MessageStore ends with at most one copy of that content.
C35_OverlapKeepsOneCopy == Copies(cacheFile, B) <= 1

\* The call asked a provider that answered with a Response of empty content.
GotEmptyContent ==
    \E i \in 1..Len(call.log) :
        call.log[i].reply = [kind |-> "response", content |-> <<>>]

\* C36: whatever the providers reply, a Response with empty content
\* included, no empty string is in MessageStore or RecencyTracker and no
\* call returns an empty string (the stores hold none at the start).
C36_NoEmptyString ==
    /\ <<>> \notin Range(MessageCache_load(cacheFile))
    /\ <<>> \notin Range(RecentMessagesTracker_load(lastFile))
    /\ Returned => /\ ~call.raised
                   /\ call.ret # <<>>
                   /\ GotEmptyContent /\ Len(call.log) = 1 => ~call.new_message.ok

\* The only provider answered with empty content and the store was empty:
\* the sentinel is returned and nothing is written.
C36_Witness ==
    /\ Returned
    /\ GotEmptyContent
    /\ Len(call.log) = 1
    /\ call.cached = <<>>
    /\ call.ret = ErrorMsg
    /\ cacheFile = call.files[1]
    /\ lastFile = call.files[2]

----------------------------------------------------------------------------
(* Claims about the plugin configuration, checked under SpecLifecycle *)

\* The list names nothing twice.
DuplicateFree(list) == \A i, j \in 1..Len(list) : list[i] = list[j] => i = j

\* C37: from disjoint and duplicate-free enabled and disabled lists, after
\* any sequence of enable_plugin and disable_plugin calls no name is in both
\* lists, neither list names a plugin twice, the name of the last call is in
\* the list of that call and not in the other, and the configuration file
\* holds the configuration in memory.
C37_ListsDisjointAndSaved ==
    /\ Range(enabled_plugins) \cap Range(disabled_plugins) = {}
    /\ DuplicateFree(enabled_plugins)
    /\ DuplicateFree(disabled_plugins)
    /\ mgrOp.op = "enable"
          => /\ mgrOp.name \in Range(enabled_plugins)
             /\ mgrOp.name \notin Range(disabled_plugins)
    /\ mgrOp.op = "disable"
          => /\ mgrOp.name \in Range(disabled_plugins)
             /\ mgrOp.name \notin Range(enabled_plugins)
    /\ mgrOp.op \in {"enable", "disable"}
          => /\ configFile.exists
             /\ configFile.data = [enabled_plugins |-> enabled_plugins,
                                   disabled_plugins |-> disabled_plugins]

\* "x" was enabled after "y", then disabled: it moved from one list to the
\* other and the file has both lists.
C37_Witness ==
    /\ mgrOp.op = "disable"
    /\ mgrOp.name = "x"
    /\ enabled_plugins = <<"y">>
    /\ disabled_plugins = <<"x">>
    /\ configFile.data = [enabled_plugins |-> <<"y">>, disabled_plugins |-> <<"x">>]

----------------------------------------------------------------------------
(* Claims about disabled built-in plugins, checked under SpecStartup *)

\* The names of the disabled list in the plugin configuration file.
PersistedDisabled == Range(load_config(configFile).config.disabled_plugins)

\* C38: no plugin named in the persisted disabled list is in the registry,
\* whichever path registered the plugins, the registration of the built-in
\* plugins at startup included; so no provider is created from a disabled
\* plugin when the providers are created at startup or on a reload.
C38_DisabledNeverRegistered ==
    /\ \A name \in PersistedDisabled : name \notin DOMAIN plugins
    /\ integOp.op \in {"construct", "reload"}
          => \A i \in 1..Len(integration.providers) :
                integration.providers[i].value.plugin \notin PersistedDisabled

----------------------------------------------------------------------------
(* Claims about concurrent load_plugin calls, checked under SpecLoaders *)

\* load_plugin(name) of thread t is about to return a plugin.
ReturnsPlugin(t) ==
    /\ thr[t].op = "load"
    /\ thr[t].pc = "done"
    /\ thr[t].result = "plugin"

\* C39: the object load_plugin(name) returns is the object the registry
\* holds under name when the call returns, and two calls for one name are
\* never given two different objects, also when the calls run concurrently.
C39_LoadReturnsRegisteredObject ==
    /\ \A t \in Threads :
          ReturnsPlugin(t)
              => /\ thr[t].name \in DOMAIN plugins
                 /\ thr[t].plugin = Some(plugins[thr[t].name])
    /\ \A t, u \in Threads :
          (ReturnsPlugin(t) /\ ReturnsPlugin(u) /\ thr[t].name = thr[u].name)
              => thr[t].plugin = thr[u].plugin

----------------------------------------------------------------------------
(* Claims about failed loads, checked under SpecLifecycle *)

\* C40: a load_plugin(name) call that raises PluginLoadError or returns
\* nothing leaves the registry and the table of loaded modules as they were
\* before the call, for a unit that is a file and for one that is a directory.
C40_FailedLoadChangesNothing ==
    (mgrOp.op = "load" /\ mgrOp.result \in {"none", "PluginLoadError"})
        => /\ plugins = mgrOp.before
           /\ loaded_modules = mgrOp.modules

====
